---- MODULE Spec2Model ----
\* Manifold dual contouring (src/src/manifold_dual_contouring.rs) as a state
\* machine: one tessellate() call after the other on one engine, each made of
\* attempts (try_tessellate) whose stages are the actions below.
\*
\* Conventions.
\*   Index        <<x, y, z>>, the lattice index triple ([usize; 3]).
\*   Edge         0..11 for A..L.
\*   BitSet       a set of corner numbers (0..7) or of edge numbers (0..11).
\*   handles      Rust's 0-based indices are kept as they are; At(s, h) reads
\*                element h of the Vec modelled by the sequence s.
\*   values       field values are integers in units of res * sqrt(3), the
\*                space diagonal of one cell, so that sub_cube_diagonal of a
\*                sub-cube of `size` cells is `size`.
EXTENDS Integers, Sequences, FiniteSets, TLC

\* ---------------------------------------------------------------- bounds
\* At most this many lattice points of the field are negative.
MaxNeg == 2
\* After this many origin jitters the field has no zero on the lattice.
MaxRetries == 1
\* Number of tessellate() calls made on the engine.
MaxCalls == 2
\* The vertices is_2manifold is probed with.
MaxEuler == 2
MaxIntersections == 1

\* Option<T>: None, or Some(x) holding x.
None == <<>>
Some(x) == <<x>>
Unwrap(o) == o[1]
NaN == "NaN"

\* ---------------------------------------------------------------- helpers
Abs(x) == IF x < 0 THEN -x ELSE x
Max2(a, b) == IF a < b THEN b ELSE a
MinOf(S) == CHOOSE x \in S : \A y \in S : x <= y
At(s, h) == s[h + 1]
Range(s) == {s[i] : i \in 1..Len(s)}
Contains(s, x) == \E i \in 1..Len(s) : s[i] = x
Reverse(s) == [i \in 1..Len(s) |-> s[Len(s) + 1 - i]]
\* Vec::push unless contains: the dedup idiom of the source.
PushNew(s, x) == IF Contains(s, x) THEN s ELSE Append(s, x)

RECURSIVE PushAllNew(_, _)
PushAllNew(s, xs) ==
  IF xs = <<>> THEN s ELSE PushAllNew(PushNew(s, Head(xs)), Tail(xs))

RECURSIVE SumOver(_, _)
\* Sum of f[x] over the finite set S.
SumOver(f, S) ==
  IF S = {} THEN 0
  ELSE LET x == CHOOSE y \in S : TRUE IN f[x] + SumOver(f, S \ {x})

\* ---------------------------------------------------------------- edges
Edges == 0..11
EdgeBaseSame(e) == e
\* Edge::base: the canonical label (A, B or C) of an edge label.
EdgeBase(e) == e % 3

\* Cell offsets of edges, EDGE_OFFSET[e] is At(EDGE_OFFSET, e).
EDGE_OFFSET ==
  << <<0, 0, 0>>, <<0, 0, 0>>, <<0, 0, 0>>, <<0, 1, 0>>,
     <<1, 0, 0>>, <<1, 0, 0>>, <<0, 0, 1>>, <<0, 0, 1>>,
     <<0, 1, 0>>, <<0, 1, 1>>, <<1, 0, 1>>, <<1, 1, 0>> >>

\* Quad definition for edges 0-2.
QUADS == << <<0, 6, 9, 3>>, <<1, 4, 10, 7>>, <<2, 8, 11, 5>> >>

OUTSIDE_EDGES_PER_CORNER ==
  << {0, 1, 2}, {0, 4, 5}, {1, 3, 8}, {3, 4, 11},
     {2, 6, 7}, {5, 6, 10}, {7, 8, 9}, {9, 10, 11} >>

\* vertex_index::EDGES_ON_FACE. Face 2d is the low face on axis d, face 2d+1
\* the high face (add_child_to_parent: dim * 2 + (index[dim] & 1)).
EDGES_ON_FACE ==
  << {1, 2, 7, 8}, {4, 5, 10, 11}, {0, 2, 5, 6},
     {3, 8, 9, 11}, {0, 1, 3, 4}, {6, 7, 9, 10} >>

Unit(axis) == [d \in 1..3 |-> IF d = axis + 1 THEN 1 ELSE 0]
\* vertex_index::offset and neg_offset. A component below zero stands for
\* the wrapped (release) or overflowed (debug) usize: no grid entry has it.
offset(i, o) == <<i[1] + o[1], i[2] + o[2], i[3] + o[3]>>
neg_offset(i, o) == <<i[1] - o[1], i[2] - o[2], i[3] - o[3]>>
Scale(i, k) == <<i[1] * k, i[2] * k, i[3] * k>>

\* EdgeIndex::base
EdgeIndexBase(ei) ==
  [edge |-> EdgeBase(ei.edge), index |-> offset(ei.index, At(EDGE_OFFSET, ei.edge))]

half_index(input) == <<input[1] \div 2, input[2] \div 2, input[3] \div 2>>

\* ---------------------------------------------------------------- cells
\* A cell's sign pattern is the BitSet of its negative corners, kept as the
\* number as_u32() gives: bit z << 2 | y << 1 | x.
Pow2(k) == At(<<1, 2, 4, 8, 16, 32, 64, 128>>, k)
HasBit(cell, k) == (cell \div Pow2(k)) % 2 = 1
CornerOf(o) == o[1] + 2 * o[2] + 4 * o[3]
EdgeLow(e) == CornerOf(At(EDGE_OFFSET, e))
EdgeHigh(e) == CornerOf(offset(At(EDGE_OFFSET, e), Unit(EdgeBase(e))))

\* cell_configs::CELL_CONFIGS, At(CELL_CONFIGS, cell): for each sign pattern
\* of the 8 corners, the sign-change edges partitioned into the components
\* that become one dual vertex each. Two sign-change edges are joined on a
\* cube face when they are the only two on it, or, on a face with four, when
\* they cut off the same negative corner (CellConfigRule below).
CELL_CONFIGS ==
  <<
     <<>>, <<{0, 1, 2}>>, <<{0, 4, 5}>>, <<{1, 2, 4, 5}>>,
     <<{1, 3, 8}>>, <<{0, 2, 3, 8}>>, <<{0, 4, 5}, {1, 3, 8}>>, <<{2, 3, 4, 5, 8}>>,
     <<{3, 4, 11}>>, <<{0, 1, 2}, {3, 4, 11}>>, <<{0, 3, 5, 11}>>, <<{1, 2, 3, 5, 11}>>,
     <<{1, 4, 8, 11}>>, <<{0, 2, 4, 8, 11}>>, <<{0, 1, 5, 8, 11}>>, <<{2, 5, 8, 11}>>,
     <<{2, 6, 7}>>, <<{0, 1, 6, 7}>>, <<{0, 4, 5}, {2, 6, 7}>>, <<{1, 4, 5, 6, 7}>>,
     <<{1, 3, 8}, {2, 6, 7}>>, <<{0, 3, 6, 7, 8}>>, <<{0, 4, 5}, {1, 3, 8}, {2, 6, 7}>>, <<{3, 4, 5, 6, 7, 8}>>,
     <<{2, 6, 7}, {3, 4, 11}>>, <<{0, 1, 6, 7}, {3, 4, 11}>>, <<{0, 3, 5, 11}, {2, 6, 7}>>, <<{1, 3, 5, 6, 7, 11}>>,
     <<{1, 4, 8, 11}, {2, 6, 7}>>, <<{0, 4, 6, 7, 8, 11}>>, <<{0, 1, 5, 8, 11}, {2, 6, 7}>>, <<{5, 6, 7, 8, 11}>>,
     <<{5, 6, 10}>>, <<{0, 1, 2}, {5, 6, 10}>>, <<{0, 4, 6, 10}>>, <<{1, 2, 4, 6, 10}>>,
     <<{1, 3, 8}, {5, 6, 10}>>, <<{0, 2, 3, 8}, {5, 6, 10}>>, <<{0, 4, 6, 10}, {1, 3, 8}>>, <<{2, 3, 4, 6, 8, 10}>>,
     <<{3, 4, 11}, {5, 6, 10}>>, <<{0, 1, 2}, {3, 4, 11}, {5, 6, 10}>>, <<{0, 3, 6, 10, 11}>>, <<{1, 2, 3, 6, 10, 11}>>,
     <<{1, 4, 8, 11}, {5, 6, 10}>>, <<{0, 2, 4, 8, 11}, {5, 6, 10}>>, <<{0, 1, 6, 8, 10, 11}>>, <<{2, 6, 8, 10, 11}>>,
     <<{2, 5, 7, 10}>>, <<{0, 1, 5, 7, 10}>>, <<{0, 2, 4, 7, 10}>>, <<{1, 4, 7, 10}>>,
     <<{1, 3, 8}, {2, 5, 7, 10}>>, <<{0, 3, 5, 7, 8, 10}>>, <<{0, 2, 4, 7, 10}, {1, 3, 8}>>, <<{3, 4, 7, 8, 10}>>,
     <<{2, 5, 7, 10}, {3, 4, 11}>>, <<{0, 1, 5, 7, 10}, {3, 4, 11}>>, <<{0, 2, 3, 7, 10, 11}>>, <<{1, 3, 7, 10, 11}>>,
     <<{1, 4, 8, 11}, {2, 5, 7, 10}>>, <<{0, 4, 5, 7, 8, 10, 11}>>, <<{0, 1, 2, 7, 8, 10, 11}>>, <<{7, 8, 10, 11}>>,
     <<{7, 8, 9}>>, <<{0, 1, 2}, {7, 8, 9}>>, <<{0, 4, 5}, {7, 8, 9}>>, <<{1, 2, 4, 5}, {7, 8, 9}>>,
     <<{1, 3, 7, 9}>>, <<{0, 2, 3, 7, 9}>>, <<{0, 4, 5}, {1, 3, 7, 9}>>, <<{2, 3, 4, 5, 7, 9}>>,
     <<{3, 4, 11}, {7, 8, 9}>>, <<{0, 1, 2}, {3, 4, 11}, {7, 8, 9}>>, <<{0, 3, 5, 11}, {7, 8, 9}>>, <<{1, 2, 3, 5, 11}, {7, 8, 9}>>,
     <<{1, 4, 7, 9, 11}>>, <<{0, 2, 4, 7, 9, 11}>>, <<{0, 1, 5, 7, 9, 11}>>, <<{2, 5, 7, 9, 11}>>,
     <<{2, 6, 8, 9}>>, <<{0, 1, 6, 8, 9}>>, <<{0, 4, 5}, {2, 6, 8, 9}>>, <<{1, 4, 5, 6, 8, 9}>>,
     <<{1, 2, 3, 6, 9}>>, <<{0, 3, 6, 9}>>, <<{0, 4, 5}, {1, 2, 3, 6, 9}>>, <<{3, 4, 5, 6, 9}>>,
     <<{2, 6, 8, 9}, {3, 4, 11}>>, <<{0, 1, 6, 8, 9}, {3, 4, 11}>>, <<{0, 3, 5, 11}, {2, 6, 8, 9}>>, <<{1, 3, 5, 6, 8, 9, 11}>>,
     <<{1, 2, 4, 6, 9, 11}>>, <<{0, 4, 6, 9, 11}>>, <<{0, 1, 2, 5, 6, 9, 11}>>, <<{5, 6, 9, 11}>>,
     <<{5, 6, 10}, {7, 8, 9}>>, <<{0, 1, 2}, {5, 6, 10}, {7, 8, 9}>>, <<{0, 4, 6, 10}, {7, 8, 9}>>, <<{1, 2, 4, 6, 10}, {7, 8, 9}>>,
     <<{1, 3, 7, 9}, {5, 6, 10}>>, <<{0, 2, 3, 7, 9}, {5, 6, 10}>>, <<{0, 4, 6, 10}, {1, 3, 7, 9}>>, <<{2, 3, 4, 6, 7, 9, 10}>>,
     <<{3, 4, 11}, {5, 6, 10}, {7, 8, 9}>>, <<{0, 1, 2}, {3, 4, 11}, {5, 6, 10}, {7, 8, 9}>>, <<{0, 3, 6, 10, 11}, {7, 8, 9}>>, <<{1, 2, 3, 6, 10, 11}, {7, 8, 9}>>,
     <<{1, 4, 7, 9, 11}, {5, 6, 10}>>, <<{0, 2, 4, 7, 9, 11}, {5, 6, 10}>>, <<{0, 1, 6, 7, 9, 10, 11}>>, <<{2, 6, 7, 9, 10, 11}>>,
     <<{2, 5, 8, 9, 10}>>, <<{0, 1, 5, 8, 9, 10}>>, <<{0, 2, 4, 8, 9, 10}>>, <<{1, 4, 8, 9, 10}>>,
     <<{1, 2, 3, 5, 9, 10}>>, <<{0, 3, 5, 9, 10}>>, <<{0, 1, 2, 3, 4, 9, 10}>>, <<{3, 4, 9, 10}>>,
     <<{2, 5, 8, 9, 10}, {3, 4, 11}>>, <<{0, 1, 5, 8, 9, 10}, {3, 4, 11}>>, <<{0, 2, 3, 8, 9, 10, 11}>>, <<{1, 3, 8, 9, 10, 11}>>,
     <<{1, 2, 4, 5, 9, 10, 11}>>, <<{0, 4, 5, 9, 10, 11}>>, <<{0, 1, 2}, {9, 10, 11}>>, <<{9, 10, 11}>>,
     <<{9, 10, 11}>>, <<{0, 1, 2}, {9, 10, 11}>>, <<{0, 4, 5}, {9, 10, 11}>>, <<{1, 2, 4, 5}, {9, 10, 11}>>,
     <<{1, 3, 8}, {9, 10, 11}>>, <<{0, 2, 3, 8}, {9, 10, 11}>>, <<{0, 4, 5}, {1, 3, 8}, {9, 10, 11}>>, <<{2, 3, 4, 5, 8}, {9, 10, 11}>>,
     <<{3, 4, 9, 10}>>, <<{0, 1, 2}, {3, 4, 9, 10}>>, <<{0, 3, 5, 9, 10}>>, <<{1, 2, 3, 5, 9, 10}>>,
     <<{1, 4, 8, 9, 10}>>, <<{0, 2, 4, 8, 9, 10}>>, <<{0, 1, 5, 8, 9, 10}>>, <<{2, 5, 8, 9, 10}>>,
     <<{2, 6, 7}, {9, 10, 11}>>, <<{0, 1, 6, 7}, {9, 10, 11}>>, <<{0, 4, 5}, {2, 6, 7}, {9, 10, 11}>>, <<{1, 4, 5, 6, 7}, {9, 10, 11}>>,
     <<{1, 3, 8}, {2, 6, 7}, {9, 10, 11}>>, <<{0, 3, 6, 7, 8}, {9, 10, 11}>>, <<{0, 4, 5}, {1, 3, 8}, {2, 6, 7}, {9, 10, 11}>>, <<{3, 4, 5, 6, 7, 8}, {9, 10, 11}>>,
     <<{2, 6, 7}, {3, 4, 9, 10}>>, <<{0, 1, 6, 7}, {3, 4, 9, 10}>>, <<{0, 3, 5, 9, 10}, {2, 6, 7}>>, <<{1, 3, 5, 6, 7, 9, 10}>>,
     <<{1, 4, 8, 9, 10}, {2, 6, 7}>>, <<{0, 4, 6, 7, 8, 9, 10}>>, <<{0, 1, 5, 8, 9, 10}, {2, 6, 7}>>, <<{5, 6, 7, 8, 9, 10}>>,
     <<{5, 6, 9, 11}>>, <<{0, 1, 2}, {5, 6, 9, 11}>>, <<{0, 4, 6, 9, 11}>>, <<{1, 2, 4, 6, 9, 11}>>,
     <<{1, 3, 8}, {5, 6, 9, 11}>>, <<{0, 2, 3, 8}, {5, 6, 9, 11}>>, <<{0, 4, 6, 9, 11}, {1, 3, 8}>>, <<{2, 3, 4, 6, 8, 9, 11}>>,
     <<{3, 4, 5, 6, 9}>>, <<{0, 1, 2}, {3, 4, 5, 6, 9}>>, <<{0, 3, 6, 9}>>, <<{1, 2, 3, 6, 9}>>,
     <<{1, 4, 5, 6, 8, 9}>>, <<{0, 2, 4, 5, 6, 8, 9}>>, <<{0, 1, 6, 8, 9}>>, <<{2, 6, 8, 9}>>,
     <<{2, 5, 7, 9, 11}>>, <<{0, 1, 5, 7, 9, 11}>>, <<{0, 2, 4, 7, 9, 11}>>, <<{1, 4, 7, 9, 11}>>,
     <<{1, 3, 8}, {2, 5, 7, 9, 11}>>, <<{0, 3, 5, 7, 8, 9, 11}>>, <<{0, 2, 4, 7, 9, 11}, {1, 3, 8}>>, <<{3, 4, 7, 8, 9, 11}>>,
     <<{2, 3, 4, 5, 7, 9}>>, <<{0, 1, 3, 4, 5, 7, 9}>>, <<{0, 2, 3, 7, 9}>>, <<{1, 3, 7, 9}>>,
     <<{1, 2, 4, 5, 7, 8, 9}>>, <<{0, 4, 5}, {7, 8, 9}>>, <<{0, 1, 2, 7, 8, 9}>>, <<{7, 8, 9}>>,
     <<{7, 8, 10, 11}>>, <<{0, 1, 2}, {7, 8, 10, 11}>>, <<{0, 4, 5}, {7, 8, 10, 11}>>, <<{1, 2, 4, 5}, {7, 8, 10, 11}>>,
     <<{1, 3, 7, 10, 11}>>, <<{0, 2, 3, 7, 10, 11}>>, <<{0, 4, 5}, {1, 3, 7, 10, 11}>>, <<{2, 3, 4, 5, 7, 10, 11}>>,
     <<{3, 4, 7, 8, 10}>>, <<{0, 1, 2}, {3, 4, 7, 8, 10}>>, <<{0, 3, 5, 7, 8, 10}>>, <<{1, 2, 3, 5, 7, 8, 10}>>,
     <<{1, 4, 7, 10}>>, <<{0, 2, 4, 7, 10}>>, <<{0, 1, 5, 7, 10}>>, <<{2, 5, 7, 10}>>,
     <<{2, 6, 8, 10, 11}>>, <<{0, 1, 6, 8, 10, 11}>>, <<{0, 4, 5}, {2, 6, 8, 10, 11}>>, <<{1, 4, 5, 6, 8, 10, 11}>>,
     <<{1, 2, 3, 6, 10, 11}>>, <<{0, 3, 6, 10, 11}>>, <<{0, 4, 5}, {1, 2, 3, 6, 10, 11}>>, <<{3, 4, 5, 6, 10, 11}>>,
     <<{2, 3, 4, 6, 8, 10}>>, <<{0, 1, 3, 4, 6, 8, 10}>>, <<{0, 2, 3, 5, 6, 8, 10}>>, <<{1, 3, 8}, {5, 6, 10}>>,
     <<{1, 2, 4, 6, 10}>>, <<{0, 4, 6, 10}>>, <<{0, 1, 2, 5, 6, 10}>>, <<{5, 6, 10}>>,
     <<{5, 6, 7, 8, 11}>>, <<{0, 1, 2}, {5, 6, 7, 8, 11}>>, <<{0, 4, 6, 7, 8, 11}>>, <<{1, 2, 4, 6, 7, 8, 11}>>,
     <<{1, 3, 5, 6, 7, 11}>>, <<{0, 2, 3, 5, 6, 7, 11}>>, <<{0, 1, 3, 4, 6, 7, 11}>>, <<{2, 6, 7}, {3, 4, 11}>>,
     <<{3, 4, 5, 6, 7, 8}>>, <<{0, 1, 2}, {3, 4, 5, 6, 7, 8}>>, <<{0, 3, 6, 7, 8}>>, <<{1, 2, 3, 6, 7, 8}>>,
     <<{1, 4, 5, 6, 7}>>, <<{0, 2, 4, 5, 6, 7}>>, <<{0, 1, 6, 7}>>, <<{2, 6, 7}>>,
     <<{2, 5, 8, 11}>>, <<{0, 1, 5, 8, 11}>>, <<{0, 2, 4, 8, 11}>>, <<{1, 4, 8, 11}>>,
     <<{1, 2, 3, 5, 11}>>, <<{0, 3, 5, 11}>>, <<{0, 1, 2, 3, 4, 11}>>, <<{3, 4, 11}>>,
     <<{2, 3, 4, 5, 8}>>, <<{0, 1, 3, 4, 5, 8}>>, <<{0, 2, 3, 8}>>, <<{1, 3, 8}>>,
     <<{1, 2, 4, 5}>>, <<{0, 4, 5}>>, <<{0, 1, 2}>>, <<>>
  >>

\* The edges of a cell whose two corners have different signs.
CrossEdges(cell) == {e \in Edges : HasBit(cell, EdgeLow(e)) # HasBit(cell, EdgeHigh(e))}

Linked(cell, e1, e2) ==
  \E f \in 1..6 :
    LET on == EDGES_ON_FACE[f] \cap CrossEdges(cell) IN
      /\ e1 \in on /\ e2 \in on /\ e1 # e2
      /\ \/ Cardinality(on) = 2
         \/ \E k \in {EdgeLow(e1), EdgeHigh(e1)} \cap {EdgeLow(e2), EdgeHigh(e2)} :
              HasBit(cell, k)

RECURSIVE EdgeComponent(_, _)
EdgeComponent(cell, S) ==
  LET T == S \cup {e \in CrossEdges(cell) : \E s \in S : Linked(cell, s, e)} IN
    IF T = S THEN S ELSE EdgeComponent(cell, T)

RECURSIVE CellConfigRule(_, _)
\* The rule the table above is written from, components in order of their
\* smallest edge: At(CELL_CONFIGS, cell) = CellConfigRule(cell, CrossEdges(cell)).
CellConfigRule(cell, left) ==
  IF left = {} THEN <<>>
  ELSE LET c == EdgeComponent(cell, {MinOf(left)}) IN
         <<c>> \o CellConfigRule(cell, left \ c)

\* Returns the edge set containing "edge" in this cell; None stands for the panic.
RECURSIVE FirstEdgeSet(_, _)
\* for edge_set in CELL_CONFIGS[cell].iter() { if edge_set.get(edge) { return } }
FirstEdgeSet(cfg, edge) ==
  IF cfg = <<>> THEN None
  ELSE IF edge \in Head(cfg) THEN Some(Head(cfg))
  ELSE FirstEdgeSet(Tail(cfg), edge)

get_connected_edges(edge, cell) == FirstEdgeSet(At(CELL_CONFIGS, cell), edge)

RECURSIVE SelectSeq2(_, _)
SelectSeq2(s, S) ==
  IF s = <<>> THEN <<>>
  ELSE (IF Head(s) \cap S # {} THEN <<Head(s)>> ELSE <<>>) \o SelectSeq2(Tail(s), S)

all_edge_sets(edge_set, cell) == At(CELL_CONFIGS, cell)
\* Returns all edge sets sharing an edge with edge_set in this cell.
get_connected_edges_from_edge_set(edge_set, cell) ==
  SelectSeq2(At(CELL_CONFIGS, cell), edge_set)

\* ---------------------------------------------------------------- state
VARIABLES
  pc,                \* where the driver stands (see the actions)
  debug_assertions,  \* the build: TRUE checks overflow and debug_assert!
  function,          \* the implicit function: [neg |-> its negative lattice points]
  dim,               \* self.dim
  origin,            \* self.origin, as the number of jitters applied to it
  value_grid,        \* self.value_grid: Index -> value
  edge_grid,         \* self.edge_grid: its keys in the HashMap's iteration order
  vertex_octtree,    \* self.vertex_octtree: layers of vertices
  vertex_index_map,  \* self.vertex_index_map: VertexIndex -> handle
  mesh,              \* self.mesh: [vertices, faces]
  hit,               \* the position of the HitZero error of the attempt, or None
  evals,             \* the lattice points function.value() was called at, in order
  next,              \* the layer the last subsample_octtree call returned
  qef_rule,          \* which accumulators solve() leaves with a large error
  quad_next,         \* how many keys of edge_grid the quad loop has visited
  resolved,          \* what the lookups of the last compute_quad returned
  probe,             \* a vertex is_2manifold was called on, and what it returned
  calls,             \* tessellate() calls returned so far
  returned,          \* the mesh the last tessellate() call returned, or None
  panic              \* the panic that ended the call, or None

vars ==
  <<pc, probe, debug_assertions, function, dim, origin, value_grid, edge_grid,
    vertex_octtree, vertex_index_map, mesh, hit, evals, next, qef_rule,
    quad_next, resolved, calls, returned, panic>>

\* ---------------------------------------------------------------- the field
\* (bbox.dim()[k] / res).ceil_as_usize() for the boxes of the model.
DimChoices == {<<4, 4, 4>>, <<5, 5, 4>>}

\* The lattice points that can lie inside the function's bounding box: new()
\* dilates the box by 1 + 1.1 res before taking origin and dim from it, so a
\* point of the box has 2 <= index <= dim - 2 on every axis.
InsideBox(d) ==
  {<<x, y, z>> : x \in 2..(d[1] - 2), y \in 2..(d[2] - 2), z \in 2..(d[3] - 2)}

Functions(d) ==
  {[neg |-> n] : n \in {s \in SUBSET InsideBox(d) : s # {} /\ Cardinality(s) <= MaxNeg}}

\* The lattice points a jittered origin may put on the zero set.
ZeroCandidates == {<<0, 0, 0>>, <<1, 1, 1>>}
ZeroChoices == {{}} \cup {{z} : z \in ZeroCandidates}

Cheb(a, b) == Max2(Abs(a[1] - b[1]), Max2(Abs(a[2] - b[2]), Abs(a[3] - b[3])))

\* function.value() at lattice point idx for the current origin, `zeros` being
\* the lattice points on the zero set. Elsewhere the field is a distance
\* field: negative on f.neg, and as far from zero as the nearest point of the
\* other sign is away.
FunctionValue(f, zeros, idx) ==
  IF idx \in zeros THEN 0
  ELSE IF idx \in f.neg THEN -1
  ELSE MinOf({Cheb(idx, q) : q \in f.neg})

\* Returns the next largest power of 2 (for x >= 1).
RECURSIVE Pow2From(_, _)
Pow2From(p, x) == IF p >= x THEN p ELSE Pow2From(2 * p, x)
pow2roundup(x) == Pow2From(1, x)

\* ---------------------------------------------------------------- sampling
GridInsert(g, k, v) == [i \in DOMAIN g \cup {k} |-> IF i = k THEN v ELSE g[i]]
EmptyMap == [i \in {} |-> 0]

HitsZeroNever(value) == FALSE
\* value == From::from(0f32)
HitsZero(value) == value = 0

RECURSIVE SampleCorners(_, _, _, _, _, _, _)
\* The z, y, x loops of sample_value_grid from corner k on. `size` is the
\* halved size, st = [grid, err, evals] the value grid, the error returned
\* (None: none yet) and the points evaluated so far.
SampleCorners(f, zeros, st, idx, size, val, k) ==
  IF k = 8 \/ st.err # None THEN st
  ELSE
    LET midx == offset(idx, Scale(<<k % 2, (k \div 2) % 2, k \div 4>>, size))
        value == IF midx = idx THEN val ELSE FunctionValue(f, zeros, midx)
        st1 == IF midx = idx THEN st ELSE [st EXCEPT !.evals = Append(@, midx)]
    IN IF HitsZero(value) THEN [st1 EXCEPT !.err = Some(midx)]
       ELSE LET st2 ==
                  IF size > 1 /\ Abs(value) <= size
                  THEN SampleCorners(f, zeros, st1, midx, size \div 2, value, 0)
                  ELSE [st1 EXCEPT !.grid = GridInsert(@, midx, value)]
            IN SampleCorners(f, zeros, st2, idx, size, val, k + 1)

sample_value_grid(f, zeros, st, idx, size, val) ==
  SampleCorners(f, zeros, st, idx, size \div 2, val, 0)

tessellation_step1(f, zeros, d, grid) ==
  LET maxdim == Max2(d[1], Max2(d[2], d[3]))
      origin_value == FunctionValue(f, zeros, <<0, 0, 0>>)
  IN sample_value_grid(f, zeros, [grid |-> grid, err |-> None, evals |-> << <<0, 0, 0>> >>],
                       <<0, 0, 0>>, pow2roundup(maxdim), origin_value)

\* ---------------------------------------------------------------- compaction
Signum(v) == IF v < 0 THEN -1 ELSE 1
AroundFaces ==
  {<<x, y, z>> : x \in -1..1, y \in {0}, z \in {0}}
    \cup {<<x, y, z>> : x \in {0}, y \in -1..1, z \in {0}}
    \cup {<<x, y, z>> : x \in {0}, y \in {0}, z \in -1..1}
Around == {<<x, y, z>> : x \in -1..1, y \in -1..1, z \in -1..1}

\* The filter of compact_value_grid: no neighbouring index holds a value of
\* the other sign. (idx + (x - 1) wraps twice in a release build and is
\* idx - 1, or no key of the grid when the component is 0.)
ToRemove(g, idx) ==
  \A d \in Around :
    LET adjacent_idx == offset(idx, d) IN
      adjacent_idx \in DOMAIN g => Signum(g[idx]) = Signum(g[adjacent_idx])

compact_value_grid(g) ==
  LET keys_to_remove == {idx \in DOMAIN g : ToRemove(g, idx)} IN
    [i \in DOMAIN g \ keys_to_remove |-> g[i]]

\* ---------------------------------------------------------------- edge grid
find_zero_any_sign(av, bv) == TRUE
\* find_zero gives a plane exactly when the signs differ.
find_zero(av, bv) == Signum(av) # Signum(bv)

EdgeKeys(g) ==
  {[edge |-> e, index |-> i] : e \in 0..2, i \in DOMAIN g}

generate_edge_grid(g) ==
  {k \in EdgeKeys(g) :
     LET adjacent_idx == offset(k.index, Unit(k.edge)) IN
       adjacent_idx \in DOMAIN g /\ find_zero(g[k.index], g[adjacent_idx])}

\* A total order on edge keys, to write down iteration orders.
IndexRank(i) == (i[3] * 64 + i[2]) * 64 + i[1]
EdgeRank(k) == IndexRank(k.index) * 3 + k.edge

RECURSIVE SortedKeys(_)
SortedKeys(S) ==
  IF S = {} THEN <<>>
  ELSE LET m == CHOOSE k \in S : \A o \in S : EdgeRank(k) <= EdgeRank(o) IN
         <<m>> \o SortedKeys(S \ {m})

\* The iteration orders of the edge grid's HashMap the model follows.
IterationOrders(S) == {SortedKeys(S), Reverse(SortedKeys(S))}

\* ---------------------------------------------------------------- leaf vertices
\* bitset_for_cell: the sign pattern of the cell at idx; None stands for the
\* panic "did not find value_grid[..]".
CornerOffsets == {<<x, y, z>> : x \in 0..1, y \in 0..1, z \in 0..1}
bitset_for_cell(g, idx) ==
  IF \E o \in CornerOffsets : offset(idx, o) \notin DOMAIN g THEN None
  ELSE Some(SumOver([o \in CornerOffsets |->
                       IF g[offset(idx, o)] < 0 THEN Pow2(CornerOf(o)) ELSE 0],
                    CornerOffsets))

FaceAxis(face) == face \div 2
OppositeFace(face) == IF face % 2 = 0 THEN face + 1 ELSE face - 1
FaceStep(face) ==
  [d \in 1..3 |-> IF d # FaceAxis(face) + 1 THEN 0 ELSE IF face % 2 = 0 THEN -1 ELSE 1]

\* The label the edge e, lying on `face` of a cell, has in the cell across that face.
MirrorEdge(e, face) ==
  CHOOSE e2 \in At(EDGES_ON_FACE, OppositeFace(face)) :
    /\ EdgeBase(e2) = EdgeBase(e)
    /\ offset(FaceStep(face), At(EDGE_OFFSET, e2)) = At(EDGE_OFFSET, e)

\* VertexIndex::neighbor: the edges of this vertex on `face`, as the cell
\* across that face labels them; None when the vertex has no edge on the
\* face or the cell across it would have a negative index.
VertexIndexNeighbor(vi, face) ==
  LET on == vi.edges \cap At(EDGES_ON_FACE, face) IN
    IF on = {} THEN None
    ELSE IF face % 2 = 0 /\ vi.index[FaceAxis(face) + 1] = 0 THEN None
    ELSE Some([edges |-> {MirrorEdge(e, face) : e \in on},
               index |-> offset(vi.index, FaceStep(face))])

\* Qef::new for a leaf and Qef::merge: the accumulator is determined by the
\* leaf vertices whose planes and boxes went into it; error is NaN until solve().
\* `solves` counts the calls of solve() on the accumulator.
QefNew(leafs) == [leafs |-> leafs, error |-> NaN, solves |-> 0]
QefMerge(q, other) == [q EXCEPT !.leafs = @ \cup other.leafs]

NoNeighbors == << <<>>, <<>>, <<>>, <<>>, <<>>, <<>> >>

RECURSIVE ToVertexIndices(_, _)
ToVertexIndices(edge_sets, index) ==
  IF edge_sets = <<>> THEN <<>>
  ELSE <<[edges |-> Head(edge_sets), index |-> index]>>
       \o ToVertexIndices(Tail(edge_sets), index)

\* The neighbor handles of a fresh leaf on face i, None for a panic of bitset_for_cell.
LeafNeighbors(g, vertex_index, i) ==
  LET neighbor_index == VertexIndexNeighbor(vertex_index, i) IN
    IF neighbor_index = None THEN Some(<<>>)
    ELSE LET cell == bitset_for_cell(g, Unwrap(neighbor_index).index) IN
           IF cell = None THEN None
           ELSE Some(PushAllNew(<<>>,
                  ToVertexIndices(
                    get_connected_edges_from_edge_set(Unwrap(neighbor_index).edges,
                                                      Unwrap(cell)),
                    Unwrap(neighbor_index).index)))

LeafVertex(vertex_index, neighbors) ==
  [index |-> vertex_index.index,
   qef |-> QefNew({vertex_index}),
   neighbors |-> neighbors,
   parent |-> None,
   children |-> <<>>,
   mesh_index |-> None,
   edge_intersections |-> [e \in Edges |-> IF e \in vertex_index.edges THEN 1 ELSE 0],
   euler_characteristic |-> 1]

\* add_vertices_for_minimal_egde from line 808 on: the leaf of vertex_index
\* with the neighbors found on its six faces, pushed and entered in the map.
PushLeaf(keys, st, vertex_index, neighbors) ==
  IF \E i \in 1..6 : neighbors[i] = None
  THEN [st EXCEPT !.panic = Some("did not find value_grid")]
  ELSE IF \E e \in vertex_index.edges :
            EdgeIndexBase([edge |-> e, index |-> vertex_index.index]) \notin keys
  THEN [st EXCEPT !.panic = Some("could not find edge_point")]
  ELSE [st EXCEPT
          !.vertices = Append(@, LeafVertex(vertex_index,
                                   [i \in 1..6 |-> Unwrap(neighbors[i])])),
          !.index_map = GridInsert(@, vertex_index, Len(st.vertices))]

\* add_vertices_for_minimal_egde from line 781 on, edge_set what
\* get_connected_edges gave for the cell at idx.
AddLeaf(g, keys, st, idx, edge_set) ==
  IF edge_set = None THEN [st EXCEPT !.panic = Some("Did not find edge_set")]
  ELSE
    LET vertex_index == [edges |-> Unwrap(edge_set), index |-> idx] IN
      IF vertex_index \in DOMAIN st.index_map THEN st
      ELSE PushLeaf(keys, st, vertex_index,
                    [i \in 1..6 |-> LeafNeighbors(g, vertex_index, i - 1)])

RECURSIVE add_vertices_for_minimal_egde(_, _, _, _, _)
\* The loop over QUADS[edge] from position q on; st = [vertices, index_map, panic].
add_vertices_for_minimal_egde(g, keys, st, edge_index, q) ==
  IF q > 4 \/ st.panic # None THEN st
  ELSE
    LET quad_egde == At(QUADS, edge_index.edge)[q]
        idx == neg_offset(edge_index.index, At(EDGE_OFFSET, quad_egde))
        cell == bitset_for_cell(g, idx)
    IN IF cell = None
       THEN [st EXCEPT !.panic = Some("did not find value_grid")]
       ELSE add_vertices_for_minimal_egde(g, keys,
              AddLeaf(g, keys, st, idx, get_connected_edges(quad_egde, Unwrap(cell))),
              edge_index, q + 1)

RECURSIVE AddAllLeafs(_, _, _, _)
AddAllLeafs(g, keys, st, order) ==
  IF order = <<>> THEN st
  ELSE AddAllLeafs(g, keys,
                   add_vertices_for_minimal_egde(g, keys, st, Head(order), 1),
                   Tail(order))

\* generate_leaf_vertices from line 731 on: the neighbors of every leaf are
\* replaced by their handles in the layer.
ResolveNeighbors(st) ==
  LET unresolved ==
        \E v \in 1..Len(st.vertices) : \E np \in 1..6 :
          \E ni \in 1..Len(st.vertices[v].neighbors[np]) :
            st.vertices[v].neighbors[np][ni] \notin DOMAIN st.index_map
  IN IF st.panic # None THEN st
     ELSE IF unresolved THEN [st EXCEPT !.panic = Some("called unwrap() on a None value")]
     ELSE [st EXCEPT !.vertices =
             [v \in 1..Len(st.vertices) |->
                [st.vertices[v] EXCEPT !.neighbors =
                   [np \in 1..6 |->
                      [ni \in 1..Len(st.vertices[v].neighbors[np]) |->
                         st.index_map[st.vertices[v].neighbors[np][ni]]]]]]]

\* generate_leaf_vertices: [vertices, index_map, panic].
generate_leaf_vertices(g, order) ==
  ResolveNeighbors(
    AddAllLeafs(g, Range(order),
                [vertices |-> <<>>, index_map |-> EmptyMap, panic |-> None],
                order))

\* ---------------------------------------------------------------- subsampling
RECURSIVE SortedNats(_)
\* BTreeSet<usize> iteration: ascending.
SortedNats(S) ==
  IF S = {} THEN <<>> ELSE <<MinOf(S)>> \o SortedNats(S \ {MinOf(S)})

Handles(layer) == 0..(Len(layer) - 1)

add_no_connected_vertices(base, parent_index, neigbors) == neigbors
RECURSIVE add_connected_vertices_in_subcell(_, _, _)
\* All vertices in the same octtree subcell as the start vertex and connected
\* to it: what the recursion over the neighbor lists has inserted when it ends.
add_connected_vertices_in_subcell(base, parent_index, neigbors) ==
  LET reached ==
        {vi \in Handles(base) :
           /\ half_index(At(base, vi).index) = parent_index
           /\ \E s \in neigbors : \E np \in 1..6 : Contains(At(base, s).neighbors[np], vi)}
  IN IF reached \subseteq neigbors THEN neigbors
     ELSE add_connected_vertices_in_subcell(base, parent_index, neigbors \cup reached)

\* (i[2] & 1) << 2 | (i[1] & 1) << 1 | (i[0] & 1)
CornerIndex(i) == (i[3] % 2) * 4 + (i[2] % 2) * 2 + (i[1] % 2)
OutsideEdges(vertex) == At(OUTSIDE_EDGES_PER_CORNER, CornerIndex(vertex.index))

SubsampledEulerNoInner(euler, inner_sum) == euler
\* euler -= inner_sum as i32 / 4
SubsampledEuler(euler, inner_sum) == euler - (inner_sum \div 4)

\* subsample_euler_characteristics: [intersections, euler, inner_sum].
subsample_euler_characteristics(children, vertices) ==
  LET intersections ==
        [e \in Edges |->
           SumOver([c \in children |->
                      IF e \in OutsideEdges(At(vertices, c))
                      THEN At(vertices, c).edge_intersections[e] ELSE 0],
                   children)]
      inner_sum ==
        SumOver([c \in children |->
                   SumOver([e \in Edges |->
                              IF e \in OutsideEdges(At(vertices, c)) THEN 0
                              ELSE At(vertices, c).edge_intersections[e]],
                           Edges)],
                children)
      euler == SumOver([c \in children |-> At(vertices, c).euler_characteristic], children)
  IN [intersections |-> intersections,
      euler |-> SubsampledEuler(euler, inner_sum),
      inner_sum |-> inner_sum]

RelevantNeighborLow(child, d) == d * 2
\* relevant_neighbor = dim * 2 + (child.index[dim] & 1)
RelevantNeighbor(child, d) == d * 2 + (child.index[d + 1] % 2)

add_child_to_parent(child, parent) ==
  [parent EXCEPT
     !.qef = QefMerge(@, child.qef),
     !.neighbors =
        [np \in 1..6 |->
           IF RelevantNeighbor(child, FaceAxis(np - 1)) = np - 1
           THEN PushAllNew(@[np], child.neighbors[np])
           ELSE @[np]]]

PushChildNot(parent, neighbor_index) == parent
\* parent.children.push(neighbor_index)
PushChild(parent, neighbor_index) == [parent EXCEPT !.children = Append(@, neighbor_index)]

RECURSIVE AddChildren(_, _, _)
AddChildren(base, parent, order) ==
  IF order = <<>> THEN parent
  ELSE AddChildren(base,
                   add_child_to_parent(At(base, Head(order)),
                                       PushChild(parent, Head(order))),
                   Tail(order))

NewParent(base, vertex, neighbor_set) ==
  LET ec == subsample_euler_characteristics(neighbor_set, base) IN
    AddChildren(base,
                [index |-> half_index(vertex.index),
                 qef |-> QefNew({}),
                 neighbors |-> NoNeighbors,
                 parent |-> None,
                 children |-> <<>>,
                 mesh_index |-> None,
                 edge_intersections |-> ec.intersections,
                 euler_characteristic |-> ec.euler],
                SortedNats(neighbor_set))

RECURSIVE SubsampleFrom(_, _, _)
\* The first loop of subsample_octtree from vertex i on.
SubsampleFrom(base, result, i) ==
  IF i >= Len(base) THEN [base |-> base, result |-> result]
  ELSE IF At(base, i).parent # None THEN SubsampleFrom(base, result, i + 1)
  ELSE
    LET neighbor_set ==
          add_connected_vertices_in_subcell(base, half_index(At(base, i).index), {i})
        parent == NewParent(base, At(base, i), neighbor_set)
    IN SubsampleFrom(
         [h \in 1..Len(base) |->
            IF h - 1 \in neighbor_set
            THEN [base[h] EXCEPT !.parent = Some(Len(result))]
            ELSE base[h]],
         Append(result, parent), i + 1)

\* subsample_octtree from line 394 on, r what the first loop left: the
\* neighbors of the new vertices are replaced by the parents of those neighbors.
NeighborsToParents(r) ==
  [base |-> r.base,
   result |->
     [v \in 1..Len(r.result) |->
        [r.result[v] EXCEPT !.neighbors =
           [np \in 1..6 |->
              [ni \in 1..Len(r.result[v].neighbors[np]) |->
                 Unwrap(At(r.base, r.result[v].neighbors[np][ni]).parent)]]]]]

\* subsample_octtree: [base, result], base with the parents it has set.
subsample_octtree(base0) == NeighborsToParents(SubsampleFrom(base0, <<>>, 0))

\* ---------------------------------------------------------------- QEF solve
\* The error classes solve() can leave: at most the tolerance, or above it.
\* A rule <<lo, hi>> makes the error of an accumulator large exactly when lo
\* to hi leafs went into it.
QefRules == {<<1, 0>>, <<1, 1>>, <<2, 3>>, <<4, 64>>, <<1, 64>>}
QefSolve(rule, qef) ==
  [qef EXCEPT
     !.error =
        IF rule[1] <= Cardinality(qef.leafs) /\ Cardinality(qef.leafs) <= rule[2]
        THEN "high" ELSE "low",
     !.solves = @ + 1]

IsNanNever(error) == FALSE
IsNanAlways(error) == TRUE
\* error.is_nan()
IsNan(error) == error = NaN

SetVertexOrphan(octtree, layer, index, vertex) ==
  [octtree EXCEPT ![layer + 1][index + 1] = [vertex EXCEPT !.parent = None]]
SetVertex(octtree, layer, index, vertex) ==
  [octtree EXCEPT ![layer + 1][index + 1] = vertex]

RECURSIVE recursively_solve_qefs(_, _, _, _, _)
RECURSIVE SolveChildren(_, _, _, _, _)
\* st = [octtree, num_solved, panic].
recursively_solve_qefs(debug, rule, st, layer, index_in_layer) ==
  LET vertex == At(At(st.octtree, layer), index_in_layer) IN
    IF st.panic # None THEN st
    ELSE IF ~(Len(vertex.children) = 0 \/ layer > 0)
    THEN [st EXCEPT !.panic = Some("assertion failed: children.len() == 0 || layer > 0")]
    ELSE IF debug /\ ~IsNan(vertex.qef.error)
    THEN [st EXCEPT !.panic = Some("found solved qef")]
    ELSE
      LET qef == QefSolve(rule, vertex.qef)
          st1 == [st EXCEPT
                    !.octtree = SetVertex(@, layer, index_in_layer,
                                          [vertex EXCEPT !.qef = qef]),
                    !.num_solved = @ + 1]
      IN IF qef.error = "high"
         THEN SolveChildren(debug, rule, st1, layer, vertex.children)
         ELSE st1

SolveChildren(debug, rule, st, layer, children) ==
  IF children = <<>> THEN st
  ELSE SolveChildren(debug, rule,
                     recursively_solve_qefs(debug, rule, st, layer - 1, Head(children)),
                     layer, Tail(children))

RECURSIVE SolveTop(_, _, _, _)
SolveTop(debug, rule, st, i) ==
  IF i >= Len(At(st.octtree, Len(st.octtree) - 1)) THEN st
  ELSE SolveTop(debug, rule,
                recursively_solve_qefs(debug, rule, st, Len(st.octtree) - 1, i), i + 1)

solve_qefs(debug, rule, octtree) ==
  LET st == [octtree |-> octtree, num_solved |-> 0, panic |-> None] IN
    IF octtree = <<>> THEN st ELSE SolveTop(debug, rule, st, 0)

\* ---------------------------------------------------------------- quads
FaceSum(vertex, face) ==
  SumOver([e \in Edges |-> vertex.edge_intersections[e]], At(EDGES_ON_FACE, face))

is_2manifold_any_euler(vertex) ==
  \A face \in 0..5 : ~(FaceSum(vertex, face) # 0 /\ FaceSum(vertex, face) # 2)

is_2manifold(vertex) ==
  IF vertex.euler_characteristic # 1 THEN FALSE
  ELSE \A face \in 0..5 : ~(FaceSum(vertex, face) # 0 /\ FaceSum(vertex, face) # 2)

WalkStopsAnyError(octtree, octtree_layer, next_vertex) ==
  \/ octtree_layer = Len(octtree) - 2
  \/ ~is_2manifold(next_vertex)
\* The break condition of the loop of lookup_cell_point, lines 877-879.
WalkStops(octtree, octtree_layer, next_vertex) ==
  \/ (next_vertex.qef.error # NaN /\ next_vertex.qef.error = "high")
  \/ octtree_layer = Len(octtree) - 2
  \/ ~is_2manifold(next_vertex)

RECURSIVE WalkUp(_, _, _)
\* The loop of lookup_cell_point: [layer, index, panic].
WalkUp(octtree, octtree_layer, octtree_index) ==
  LET parent == At(At(octtree, octtree_layer), octtree_index).parent IN
    IF parent = None
    THEN [layer |-> octtree_layer, index |-> octtree_index,
          panic |-> Some("called unwrap() on a None value")]
    ELSE IF octtree_layer + 1 >= Len(octtree)
            \/ Unwrap(parent) >= Len(At(octtree, octtree_layer + 1))
    THEN [layer |-> octtree_layer, index |-> octtree_index,
          panic |-> Some("index out of bounds")]
    ELSE
      LET next_index == Unwrap(parent)
          next_vertex == At(At(octtree, octtree_layer + 1), next_index)
      IN IF WalkStops(octtree, octtree_layer, next_vertex)
         THEN [layer |-> octtree_layer, index |-> octtree_index, panic |-> None]
         ELSE WalkUp(octtree, octtree_layer + 1, next_index)

\* A panic of lookup_cell_point with the message msg.
LookupPanic(st, msg) == [st |-> [st EXCEPT !.panic = Some(msg)], result |-> 0]

\* lookup_cell_point from line 887 on, w the place the walk stopped at: the
\* mesh index of that vertex, its QEF solved and its point pushed on first use.
ResolveWalk(rule, st, w) ==
  IF w.panic # None THEN LookupPanic(st, Unwrap(w.panic))
  ELSE
    LET vertex == At(At(st.octtree, w.layer), w.index) IN
      IF vertex.mesh_index # None
      THEN [st |-> st, result |-> Unwrap(vertex.mesh_index)]
      ELSE
        LET qef == IF IsNan(vertex.qef.error) THEN QefSolve(rule, vertex.qef)
                   ELSE vertex.qef
            result == Len(st.mesh.vertices)
        IN [st |-> [st EXCEPT
                      !.octtree = SetVertex(@, w.layer, w.index,
                                    [vertex EXCEPT !.qef = qef,
                                                   !.mesh_index = Some(result)]),
                      !.mesh.vertices = Append(@, qef.leafs)],
            result |-> result]

\* lookup_cell_point from line 861 on, edge_set what get_connected_edges gave.
LookupEdgeSet(rule, index_map, st, idx, edge_set) ==
  IF edge_set = None THEN LookupPanic(st, "Did not find edge_set")
  ELSE LET vertex_index == [edges |-> Unwrap(edge_set), index |-> idx] IN
  IF vertex_index \notin DOMAIN index_map
  THEN LookupPanic(st, "called unwrap() on a None value")
  ELSE IF st.octtree = <<>> \/ index_map[vertex_index] >= Len(At(st.octtree, 0))
  THEN LookupPanic(st, "index out of bounds")
  ELSE ResolveWalk(rule, st, WalkUp(st.octtree, 0, index_map[vertex_index]))

\* lookup_cell_point on st = [octtree, mesh, panic]: [st, result].
lookup_cell_point(rule, g, index_map, st, edge, idx) ==
  LET cell == bitset_for_cell(g, idx) IN
    IF cell = None THEN LookupPanic(st, "did not find value_grid")
    ELSE LookupEdgeSet(rule, index_map, st, idx,
                       get_connected_edges(edge, Unwrap(cell)))

DedupPushAlways(p, point_index) == Append(p, point_index)
\* if !p.contains(&point_index) { p.push(point_index) }
DedupPush(p, point_index) == IF Contains(p, point_index) THEN p ELSE Append(p, point_index)

EdgeReversedNever(g, edge_index) == FALSE
\* Reverse order, if the edge is reversed.
EdgeReversed(g, edge_index) ==
  edge_index.index \in DOMAIN g /\ g[edge_index.index] < 0

\* One pass of the loop of compute_quad: r is what lookup_cell_point returned.
PushPoint(acc, r) ==
  [st |-> r.st,
   resolved |-> IF r.st.panic # None THEN acc.resolved
                ELSE Append(acc.resolved, r.result),
   p |-> IF r.st.panic # None THEN acc.p ELSE DedupPush(acc.p, r.result)]

RECURSIVE LookupQuad(_, _, _, _, _, _)
\* The loop of compute_quad from position q on: [st, resolved, p], resolved
\* the indices lookup_cell_point returned and p the deduplicated list.
LookupQuad(rule, g, index_map, acc, edge_index, q) ==
  IF q > 4 \/ acc.st.panic # None THEN acc
  ELSE
    LET quad_egde == At(QUADS, edge_index.edge)[q] IN
      LookupQuad(rule, g, index_map,
                 PushPoint(acc,
                   lookup_cell_point(rule, g, index_map, acc.st, quad_egde,
                     neg_offset(edge_index.index, At(EDGE_OFFSET, quad_egde)))),
                 edge_index, q + 1)

\* The faces compute_quad pushes for the deduplicated points p.
QuadFaces(g, edge_index, p0) ==
  IF Len(p0) < 3 THEN <<>>
  ELSE
    LET p == IF EdgeReversed(g, edge_index) THEN Reverse(p0) ELSE p0
    IN << <<p[1], p[2], p[3]>> >>
       \o (IF Len(p) = 4 THEN << <<p[3], p[4], p[1]>> >> ELSE <<>>)

\* compute_quad from line 947 on, acc what the loop over QUADS[edge] left.
PushFaces(g, edge_index, acc) ==
  IF acc.st.panic # None THEN [st |-> acc.st, resolved |-> acc.resolved]
  ELSE [st |-> [acc.st EXCEPT !.mesh.faces = @ \o QuadFaces(g, edge_index, acc.p)],
        resolved |-> acc.resolved]

\* compute_quad on st = [octtree, mesh, panic]: [st, resolved].
compute_quad(debug, rule, g, index_map, st, edge_index) ==
  IF debug /\ ~(edge_index.edge < 4 /\ \A d \in 1..3 : edge_index.index[d] > 0)
  THEN [st |-> [st EXCEPT !.panic = Some("assertion failed")], resolved |-> <<>>]
  ELSE PushFaces(g, edge_index,
                 LookupQuad(rule, g, index_map,
                            [st |-> st, resolved |-> <<>>, p |-> <<>>], edge_index, 1))

EmptyMesh == [vertices |-> <<>>, faces |-> <<>>]

\* ---------------------------------------------------------------- one attempt
RECURSIVE GrowOcttree(_)
\* The growth loop of try_tessellate, lines 538-544, run to its break.
GrowOcttree(octtree) ==
  LET last == octtree[Len(octtree)]
      r == subsample_octtree(last)
      marked == [octtree EXCEPT ![Len(octtree)] = r.base]
  IN IF Len(r.result) = Len(last) THEN marked
     ELSE GrowOcttree(Append(marked, r.result))

RECURSIVE ComputeQuads(_, _, _, _, _, _)
\* The quad loop of try_tessellate, lines 551-553, from key q of order on.
ComputeQuads(debug, rule, g, index_map, st, order) ==
  IF order = <<>> \/ st.panic # None THEN st
  ELSE ComputeQuads(debug, rule, g, index_map,
                    compute_quad(debug, rule, g, index_map, st, Head(order)).st,
                    Tail(order))

\* try_tessellate from line 528 on, on a new engine whose edge_grid iterates
\* in the given order: [octtree, mesh, panic].
try_tessellate(debug, rule, g, order) ==
  LET leafs == generate_leaf_vertices(g, order) IN
    IF leafs.panic # None
    THEN [octtree |-> <<>>, mesh |-> EmptyMesh, panic |-> leafs.panic]
    ELSE
      LET solved == solve_qefs(debug, rule, GrowOcttree(<<leafs.vertices>>)) IN
        IF solved.panic # None
        THEN [octtree |-> solved.octtree, mesh |-> EmptyMesh, panic |-> solved.panic]
        ELSE ComputeQuads(debug, rule, g, leafs.index_map,
                          [octtree |-> solved.octtree, mesh |-> EmptyMesh,
                           panic |-> None],
                          order)

\* ---------------------------------------------------------------- actions
Init ==
  /\ pc = "idle"
  /\ debug_assertions \in BOOLEAN
  /\ dim \in DimChoices
  /\ function \in Functions(dim)
  /\ origin = 0
  /\ value_grid = EmptyMap
  /\ edge_grid = <<>>
  /\ vertex_octtree = <<>>
  /\ vertex_index_map = EmptyMap
  /\ mesh = EmptyMesh
  /\ hit = None
  /\ evals = <<>>
  /\ next = <<>>
  /\ qef_rule = None
  /\ quad_next = 0
  /\ resolved = <<>>
  /\ probe = None
  /\ calls = 0
  /\ returned = None
  /\ panic = None

\* tessellate() is called.
Tessellate ==
  /\ pc = "idle" /\ calls < MaxCalls
  /\ pc' = "try"
  /\ UNCHANGED <<probe, debug_assertions, function, dim, origin, value_grid, edge_grid,
                 vertex_octtree, vertex_index_map, mesh, hit, evals, next,
                 qef_rule, quad_next, resolved, calls, returned, panic>>

\* try_tessellate, lines 501-503: tessellation_step1. The jittered origin may
\* have put a lattice point on the zero set; an origin that has been sampled
\* without a zero gives the same values again.
TessellationStep1 ==
  /\ pc = "try"
  /\ \E zeros \in ZeroChoices :
       /\ zeros # {} => (origin < MaxRetries /\ calls = 0)
       /\ \E st \in {tessellation_step1(function, zeros, dim, value_grid)} :
            /\ value_grid' = st.grid
            /\ hit' = st.err
            /\ evals' = st.evals
            /\ pc' = IF st.err # None THEN "hitzero" ELSE "sampled"
  /\ UNCHANGED <<probe, debug_assertions, function, dim, origin, edge_grid,
                 vertex_octtree, vertex_index_map, mesh, next, qef_rule,
                 quad_next, resolved, calls, returned, panic>>

KeptValueGrid(g) == g
\* self.value_grid.clear()
ClearedValueGrid(g) == EmptyMap

\* tessellate(), lines 471-484: the attempt failed; move the origin, clear, retry.
Retry ==
  /\ pc = "hitzero"
  /\ origin' = origin + 1
  /\ value_grid' = ClearedValueGrid(value_grid)
  /\ mesh' = EmptyMesh
  /\ vertex_octtree' = <<>>
  /\ vertex_index_map' = EmptyMap
  /\ hit' = None
  /\ evals' = <<>>
  /\ pc' = "try"
  /\ UNCHANGED <<probe, debug_assertions, function, dim, edge_grid, next, qef_rule,
                 quad_next, resolved, calls, returned, panic>>

\* try_tessellate, line 512. In a debug build `x - 1` overflows for x = 0 at
\* the first entry the filter looks at.
CompactValueGrid ==
  /\ pc = "sampled"
  /\ IF debug_assertions /\ DOMAIN value_grid # {}
     THEN /\ pc' = "panicked"
          /\ panic' = Some("attempt to subtract with overflow")
          /\ UNCHANGED value_grid
     ELSE /\ pc' = "compacted"
          /\ value_grid' = compact_value_grid(value_grid)
          /\ UNCHANGED panic
  /\ UNCHANGED <<probe, debug_assertions, function, dim, origin, edge_grid,
                 vertex_octtree, vertex_index_map, mesh, hit, evals, next,
                 qef_rule, quad_next, resolved, calls, returned>>

\* try_tessellate, line 520. The map keeps the order of the keys it holds.
GenerateEdgeGrid ==
  /\ pc = "compacted"
  /\ LET keys == generate_edge_grid(value_grid) IN
       IF Range(edge_grid) = keys /\ edge_grid # <<>>
       THEN UNCHANGED edge_grid
       ELSE edge_grid' \in IterationOrders(Range(edge_grid) \cup keys)
  /\ pc' = "edges"
  /\ UNCHANGED <<probe, debug_assertions, function, dim, origin, value_grid,
                 vertex_octtree, vertex_index_map, mesh, hit, evals, next,
                 qef_rule, quad_next, resolved, calls, returned, panic>>

\* try_tessellate, lines 528-530.
GenerateLeafVertices ==
  /\ pc = "edges"
  /\ \E st \in {generate_leaf_vertices(value_grid, edge_grid)} :
       IF st.panic # None
       THEN /\ pc' = "panicked"
            /\ panic' = st.panic
            /\ UNCHANGED <<vertex_octtree, vertex_index_map>>
       ELSE /\ pc' = "leaves"
            /\ vertex_index_map' = st.index_map
            /\ vertex_octtree' = Append(vertex_octtree, st.vertices)
            /\ UNCHANGED panic
  /\ UNCHANGED <<probe, debug_assertions, function, dim, origin, value_grid, edge_grid,
                 mesh, hit, evals, next, qef_rule, quad_next, resolved, calls,
                 returned>>

\* try_tessellate, lines 538-544: one round of the growth loop. The parents
\* subsample_octtree sets in the last layer stay set when the loop breaks.
SubsampleStep ==
  /\ pc = "leaves"
  /\ \E r \in {subsample_octtree(vertex_octtree[Len(vertex_octtree)])} :
       LET marked == [vertex_octtree EXCEPT ![Len(vertex_octtree)] = r.base] IN
         /\ next' = r.result
         /\ IF Len(r.result) = Len(vertex_octtree[Len(vertex_octtree)])
            THEN /\ vertex_octtree' = marked
                 /\ pc' = "subsampled"
            ELSE /\ vertex_octtree' = Append(marked, r.result)
                 /\ pc' = "leaves"
  /\ UNCHANGED <<probe, debug_assertions, function, dim, origin, value_grid, edge_grid,
                 vertex_index_map, mesh, hit, evals, qef_rule, quad_next,
                 resolved, calls, returned, panic>>

\* try_tessellate, line 547.
SolveQefs ==
  /\ pc = "subsampled"
  /\ \E rule \in (IF qef_rule = None THEN QefRules ELSE {Unwrap(qef_rule)}) :
       \E st \in {solve_qefs(debug_assertions, rule, vertex_octtree)} :
         /\ qef_rule' = Some(rule)
         /\ IF st.panic # None
            THEN /\ pc' = "panicked"
                 /\ panic' = st.panic
                 /\ UNCHANGED vertex_octtree
            ELSE /\ pc' = "solved"
                 /\ vertex_octtree' = st.octtree
                 /\ UNCHANGED panic
  /\ quad_next' = 0
  /\ UNCHANGED <<probe, debug_assertions, function, dim, origin, value_grid, edge_grid,
                 vertex_index_map, mesh, hit, evals, next, resolved, calls,
                 returned>>

\* try_tessellate, lines 551-553: compute_quad for the next key of edge_grid.
ComputeQuad ==
  /\ pc = "solved" /\ quad_next < Len(edge_grid)
  /\ \E r \in {compute_quad(debug_assertions, Unwrap(qef_rule), value_grid,
                            vertex_index_map,
                            [octtree |-> vertex_octtree, mesh |-> mesh, panic |-> None],
                            At(edge_grid, quad_next))} :
        /\ resolved' = r.resolved
        /\ IF r.st.panic # None
           THEN /\ pc' = "panicked"
                /\ panic' = r.st.panic
                /\ UNCHANGED <<vertex_octtree, mesh, quad_next>>
           ELSE /\ vertex_octtree' = r.st.octtree
                /\ mesh' = r.st.mesh
                /\ quad_next' = quad_next + 1
                /\ UNCHANGED <<pc, panic>>
  /\ UNCHANGED <<probe, debug_assertions, function, dim, origin, value_grid, edge_grid,
                 vertex_index_map, hit, evals, next, qef_rule, calls, returned>>

\* try_tessellate, line 561, and the Ok branch of tessellate().
ReturnMesh ==
  /\ pc = "solved" /\ quad_next = Len(edge_grid)
  /\ returned' = Some(mesh)
  /\ calls' = calls + 1
  /\ pc' = "idle"
  /\ UNCHANGED <<probe, debug_assertions, function, dim, origin, value_grid, edge_grid,
                 vertex_octtree, vertex_index_map, mesh, hit, evals, next,
                 qef_rule, quad_next, resolved, panic>>

Next ==
  \/ Tessellate
  \/ TessellationStep1
  \/ Retry
  \/ CompactValueGrid
  \/ GenerateEdgeGrid
  \/ GenerateLeafVertices
  \/ SubsampleStep
  \/ SolveQefs
  \/ ComputeQuad
  \/ ReturnMesh

Spec == Init /\ [][Next]_vars

\* ---------------------------------------------------------------- is_2manifold alone
\* A vertex as subsample_octtree can count it: an euler_characteristic of 0 to
\* MaxEuler and up to MaxIntersections crossings on every edge.
ProbeVertex(euler, intersections) ==
  [euler_characteristic |-> euler, edge_intersections |-> intersections]

InitManifold ==
  /\ pc = "idle"
  /\ debug_assertions = FALSE
  /\ dim = <<4, 4, 4>>
  /\ function = [neg |-> {<<2, 2, 2>>}]
  /\ origin = 0
  /\ value_grid = EmptyMap
  /\ edge_grid = <<>>
  /\ vertex_octtree = <<>>
  /\ vertex_index_map = EmptyMap
  /\ mesh = EmptyMesh
  /\ hit = None
  /\ evals = <<>>
  /\ next = <<>>
  /\ qef_rule = None
  /\ quad_next = 0
  /\ resolved = <<>>
  /\ probe = None
  /\ calls = 0
  /\ returned = None
  /\ panic = None

\* is_2manifold is called on a vertex.
Is2Manifold ==
  /\ probe = None
  /\ \E euler \in 0..MaxEuler : \E intersections \in [Edges -> 0..MaxIntersections] :
       probe' = Some([vertex |-> ProbeVertex(euler, intersections),
                      result |-> is_2manifold(ProbeVertex(euler, intersections))])
  /\ UNCHANGED <<pc, debug_assertions, function, dim, origin, value_grid,
                 edge_grid, vertex_octtree, vertex_index_map, mesh, hit, evals,
                 next, qef_rule, quad_next, resolved, calls, returned, panic>>

NextManifold == Is2Manifold

SpecManifold == InitManifold /\ [][NextManifold]_vars

\* ---------------------------------------------------------------- new() alone
\* ManifoldDualContouringImpl::new, lines 432-447. Lengths are in hundredths
\* of the unit of the bounding box and res is in tenths of it, so that
\* 1.1 * res is 11 * res hundredths.
CeilDiv(a, b) == (a + b - 1) \div b

\* The amount claimed for the dilation: res * (1 + 1.1).
DilationTimesRes(res) == 21 * res
\* _1 + res * From::from(1.1f32)
Dilation(res) == 100 + 11 * res

\* bbox.dilate(d): min - d and max + d on every axis.
Dilate(bbox, d) ==
  [min |-> [a \in 1..3 |-> bbox.min[a] - d],
   max |-> [a \in 1..3 |-> bbox.max[a] + d]]

\* The fields new() derives from the dilated box: origin and dim.
new(bbox0, res) ==
  LET bbox == Dilate(bbox0, Dilation(res)) IN
    [origin |-> bbox.min,
     dim |-> [a \in 1..3 |-> CeilDiv(bbox.max[a] - bbox.min[a], 10 * res)],
     res |-> res]

\* The bounding boxes and resolutions new() is called with.
MaxRes == 12
BoxMins == {-100, -50, 0}
BoxSizes == {100, 150}
Boxes ==
  {[min |-> <<m, m, m>>, max |-> [a \in 1..3 |-> m + size[a]]] :
     m \in BoxMins, size \in [1..3 -> BoxSizes]}

\* new() is called on a function with the bounding box bbox.
New ==
  /\ probe = None
  /\ \E bbox \in Boxes : \E res \in 1..MaxRes :
       probe' = Some([bbox |-> bbox, res |-> res, engine |-> new(bbox, res)])
  /\ UNCHANGED <<pc, debug_assertions, function, dim, origin, value_grid,
                 edge_grid, vertex_octtree, vertex_index_map, mesh, hit, evals,
                 next, qef_rule, quad_next, resolved, calls, returned, panic>>

NextNew == New

SpecNew == InitManifold /\ [][NextNew]_vars

\* ---------------------------------------------------------------- to_triangle_mesh alone
\* Mesh::to_triangle_mesh, src/src/mesh.rs lines 30-45.
FaceTrianglesFirst(face) == << <<face[1], face[2], face[3]>> >>
\* The closure of flat_map: the triangles of one face.
FaceTriangles(face) ==
  IF 4 = Len(face)
  THEN << <<face[1], face[2], face[3]>>, <<face[3], face[4], face[1]>> >>
  ELSE << <<face[1], face[2], face[3]>> >>

RECURSIVE FlatMap(_)
\* flat_map over one piece of the face list, in the order of the piece.
FlatMap(faces) ==
  IF faces = <<>> THEN <<>> ELSE FaceTriangles(Head(faces)) \o FlatMap(Tail(faces))

RECURSIVE ParCollect(_, _, _)
\* par_iter().flat_map().collect(): the face list from position `from` on is
\* split after the positions in `cuts`, the pieces are mapped by whichever
\* thread takes them, and collect() appends the results in the order of the
\* pieces.
ParCollect(faces, cuts, from) ==
  IF from > Len(faces) THEN <<>>
  ELSE LET to == MinOf({c \in cuts : c >= from} \cup {Len(faces)}) IN
         FlatMap(SubSeq(faces, from, to)) \o ParCollect(faces, cuts, to + 1)

to_triangle_mesh(m, cuts) ==
  [vertices |-> m.vertices, faces |-> ParCollect(m.faces, cuts, 1)]

\* The meshes to_triangle_mesh is called on: up to MaxFaces faces of three or
\* four indices into four vertices.
MaxFaces == 3
ProbeFaces == {<<0, 1, 2>>, <<2, 1, 3>>, <<0, 1, 2, 3>>, <<3, 2, 1, 0>>}
ProbeMeshes ==
  {[vertices |-> <<"v0", "v1", "v2", "v3">>, faces |-> f] :
     f \in UNION {[1..n -> ProbeFaces] : n \in 0..MaxFaces}}

\* to_triangle_mesh is called; the scheduler splits the face list at `cuts`.
ToTriangleMesh ==
  /\ probe = None
  /\ \E m \in ProbeMeshes : \E cuts \in SUBSET (1..(Len(m.faces) - 1)) :
       probe' = Some([mesh |-> m, cuts |-> cuts, result |-> to_triangle_mesh(m, cuts)])
  /\ UNCHANGED <<pc, debug_assertions, function, dim, origin, value_grid,
                 edge_grid, vertex_octtree, vertex_index_map, mesh, hit, evals,
                 next, qef_rule, quad_next, resolved, calls, returned, panic>>

NextTriangles == ToTriangleMesh

SpecTriangles == InitManifold /\ [][NextTriangles]_vars

\* ---------------------------------------------------------------- EdgeIndex::base alone
\* The cell indices base() is called with: components 0..MaxIndex.
MaxIndex == 2
ProbeIndices == {<<x, y, z>> : x \in 0..MaxIndex, y \in 0..MaxIndex, z \in 0..MaxIndex}

\* base() of the edge QUADS[b][q] in the cell neg_offset gives for it, as
\* add_vertices_for_minimal_egde and compute_quad address the four cells.
QuadCellEdge(b, i, q) ==
  [edge |-> At(QUADS, b)[q],
   index |-> neg_offset(i, At(EDGE_OFFSET, At(QUADS, b)[q]))]

\* EdgeIndex::base is called on (e, i), on its own result, and, for a
\* canonical e, on the edge's entries in the four cells of QUADS[e].
Base ==
  /\ probe = None
  /\ \E e \in Edges : \E i \in ProbeIndices :
       probe' = Some([edge_index |-> [edge |-> e, index |-> i],
                      base |-> EdgeIndexBase([edge |-> e, index |-> i]),
                      rebase |-> EdgeIndexBase(EdgeIndexBase([edge |-> e, index |-> i])),
                      cells |-> IF e < 3
                                THEN [q \in 1..4 |-> QuadCellEdge(e, i, q)]
                                ELSE <<>>,
                      quads |-> IF e < 3
                                THEN [q \in 1..4 |-> EdgeIndexBase(QuadCellEdge(e, i, q))]
                                ELSE <<>>])
  /\ UNCHANGED <<pc, debug_assertions, function, dim, origin, value_grid,
                 edge_grid, vertex_octtree, vertex_index_map, mesh, hit, evals,
                 next, qef_rule, quad_next, resolved, calls, returned, panic>>

NextBase == Base

SpecBase == InitManifold /\ [][NextBase]_vars

\* ---------------------------------------------------------------- connected edges alone
\* The sign patterns of a cell, and the edge sets VertexIndex::neighbor hands
\* over: edges of one face of the cell.
Cells == 0..(Pow2(7) * 2 - 1)
ProbeEdgeSets == UNION {SUBSET At(EDGES_ON_FACE, f) : f \in 0..5}

\* get_connected_edges_from_edge_set is called.
ConnectedEdges ==
  /\ probe = None
  /\ \E cell \in Cells : \E edge_set \in ProbeEdgeSets :
       probe' = Some([cell |-> cell, edge_set |-> edge_set,
                      result |-> get_connected_edges_from_edge_set(edge_set, cell)])
  /\ UNCHANGED <<pc, debug_assertions, function, dim, origin, value_grid,
                 edge_grid, vertex_octtree, vertex_index_map, mesh, hit, evals,
                 next, qef_rule, quad_next, resolved, calls, returned, panic>>

NextConnected == ConnectedEdges

SpecConnected == InitManifold /\ [][NextConnected]_vars

\* ---------------------------------------------------------------- properties
VertexAt(l, h) == At(At(vertex_octtree, l), h)
\* The layers subsample_octtree has returned or the driver has stored.
AllLayers == Range(vertex_octtree) \cup {next}

\* C1: every face of the mesh has pairwise distinct vertex indices, every
\* index is below the number of mesh vertices, and every index is the
\* mesh_index of an octree vertex whose QEF has been solved.
C1_FacesValid ==
  LET solved == UNION {{At(L, h).mesh_index : h \in {k \in Handles(L) :
                                                  At(L, k).qef.error # NaN}} :
                       L \in Range(vertex_octtree)}
  IN \A i \in 1..Len(mesh.faces) :
       /\ Cardinality(Range(mesh.faces[i])) = Len(mesh.faces[i])
       /\ \A k \in 1..Len(mesh.faces[i]) :
            /\ mesh.faces[i][k] < Len(mesh.vertices)
            /\ Some(mesh.faces[i][k]) \in solved

\* A mesh with faces has been returned and the last quad had two of its four
\* cells resolve to the same mesh vertex.
C1_Witness ==
  /\ returned # None
  /\ Unwrap(returned).faces # <<>>
  /\ Len(resolved) = 4
  /\ Cardinality(Range(resolved)) = 3

\* C2: a HitZero attempt is not returned to the caller: the origin moves and
\* the next attempt starts with the value grid, the edge grid, the octree,
\* the vertex index map and the mesh empty; a mesh is only returned by an
\* attempt that has sampled no zero.
C2_HitZeroRetried ==
  [][/\ pc = "hitzero" =>
          /\ pc' = "try"
          /\ origin' # origin
          /\ returned' = returned
          /\ DOMAIN value_grid' = {}
          /\ edge_grid' = <<>>
          /\ vertex_octtree' = <<>>
          /\ DOMAIN vertex_index_map' = {}
          /\ mesh' = [vertices |-> <<>>, faces |-> <<>>]
     /\ returned' # returned =>
          /\ hit = None
          /\ returned' = Some(mesh)
          /\ \A idx \in DOMAIN value_grid : value_grid[idx] # 0]_vars

\* A mesh has been returned by an attempt that followed a HitZero attempt.
C2_Witness == returned # None /\ origin > 0 /\ calls = 1

\* C3: the value grid never holds a zero; an attempt that fails with HitZero
\* has not recorded the zero and has evaluated no point after it.
C3_NoZeroStored ==
  /\ \A idx \in DOMAIN value_grid : value_grid[idx] # 0
  /\ pc = "sampled" => hit = None
  /\ pc = "hitzero" =>
       /\ hit # None
       /\ Unwrap(hit) \notin DOMAIN value_grid
       /\ evals[Len(evals)] = Unwrap(hit)
       /\ \A i \in 1..(Len(evals) - 1) : evals[i] # Unwrap(hit)

\* A zero was hit after other corners had been evaluated and recorded.
C3_Witness == pc = "hitzero" /\ DOMAIN value_grid # {} /\ Len(evals) > 1

\* A mesh by what its vertices are solutions of, faces as a bag.
FaceContent(m) ==
  [i \in 1..Len(m.faces) |->
     [k \in 1..Len(m.faces[i]) |-> m.vertices[m.faces[i][k] + 1]]]
FaceBag(m) ==
  [f \in Range(FaceContent(m)) |->
     Cardinality({i \in 1..Len(m.faces) : FaceContent(m)[i] = f})]
Canonical(m) == [vertices |-> Range(m.vertices), faces |-> FaceBag(m)]

\* C4: the mesh of the first call is, up to vertex numbering and face order,
\* the mesh of the same attempt with the edge grid visited in sorted order.
C4_SameMeshAnyOrder ==
  (pc = "idle" /\ calls = 1) =>
    Canonical(mesh) =
      Canonical(try_tessellate(debug_assertions, Unwrap(qef_rule), value_grid,
                               SortedKeys(Range(edge_grid))).mesh)

\* C5: for the octree the driver has built, the ancestor walk from every leaf
\* ends without error at a vertex at most one layer below the top layer.
C5_WalkNeverFails ==
  pc = "solved" =>
    \A h \in Handles(At(vertex_octtree, 0)) :
      /\ WalkUp(vertex_octtree, 0, h).panic = None
      /\ WalkUp(vertex_octtree, 0, h).layer + 1 < Len(vertex_octtree)

\* The faces C6 expects of the deduplicated list d.
C6_Expected(d, negative) ==
  LET p == IF negative THEN Reverse(d) ELSE d IN
    IF Len(d) < 3 THEN <<>>
    ELSE IF Len(d) = 4 THEN << <<p[1], p[2], p[3]>>, <<p[3], p[4], p[1]>> >>
    ELSE << <<p[1], p[2], p[3]>> >>

\* C6: compute_quad resolves the four cells around the edge in QUADS order,
\* keeps the first occurrence of each index, emits nothing for fewer than
\* three, reverses iff the value at the low corner of the edge is negative,
\* and appends (p0,p1,p2) and, for four indices, (p2,p3,p0); nothing else.
C6_QuadFaces ==
  [][quad_next' = quad_next + 1 =>
       /\ Len(resolved') = 4
       /\ \A q \in 1..4 :
            \E leaf \in mesh'.vertices[resolved'[q] + 1] :
              /\ At(QUADS, At(edge_grid, quad_next).edge)[q] \in leaf.edges
              /\ leaf.index =
                   neg_offset(At(edge_grid, quad_next).index,
                              At(EDGE_OFFSET, At(QUADS, At(edge_grid, quad_next).edge)[q]))
       /\ mesh'.faces =
            mesh.faces \o C6_Expected(PushAllNew(<<>>, resolved'),
                                      value_grid[At(edge_grid, quad_next).index] < 0)]_vars

\* The last quad had four distinct vertices and was reversed.
C6_Witness ==
  /\ pc = "solved" /\ quad_next > 0
  /\ Len(resolved) = 4 /\ Cardinality(Range(resolved)) = 4
  /\ value_grid[At(edge_grid, quad_next - 1).index] < 0

XorOne(a) == IF a % 2 = 0 THEN a + 1 ELSE a - 1
LayerSymmetric(layer) ==
  \A u \in Handles(layer) : \A a \in 0..5 :
    \A k \in 1..Len(At(layer, u).neighbors[a + 1]) :
      /\ At(layer, u).neighbors[a + 1][k] \in Handles(layer)
      /\ Contains(At(layer, At(layer, u).neighbors[a + 1][k]).neighbors[XorOne(a) + 1], u)

\* C7: in every layer, a neighbor v of u on face axis a is a valid index of
\* the layer and has u among its neighbors on face axis a XOR 1.
C7_NeighborsSymmetric == \A layer \in AllLayers : LayerSymmetric(layer)

\* A subsampled layer with neighbor links is stored.
C7_Witness ==
  /\ Len(vertex_octtree) >= 2
  /\ \E u \in Handles(At(vertex_octtree, 1)) : \E a \in 1..6 :
       VertexAt(1, u).neighbors[a] # <<>>

Occurrences(s, x) == Cardinality({k \in 1..Len(s) : s[k] = x})
ParentsChildren(L, P) ==
  /\ \A c \in Handles(L) :
       /\ At(L, c).parent # None
       /\ Unwrap(At(L, c).parent) \in Handles(P)
       /\ \A p \in Handles(P) :
            Occurrences(At(P, p).children, c)
              = (IF p = Unwrap(At(L, c).parent) THEN 1 ELSE 0)
  /\ \A p \in Handles(P) : At(P, p).children # <<>>
  /\ SumOver([p \in Handles(P) |-> Len(At(P, p).children)], Handles(P)) = Len(L)

\* C8: after subsample_octtree(L) has returned P, every vertex of L has a
\* parent in P and is once in its children and in no other children list,
\* no vertex of P is without children, and the lists sum to the size of L.
C8_ParentsAndChildren ==
  [][pc = "leaves" =>
       ParentsChildren(vertex_octtree'[Len(vertex_octtree)], next')]_vars

\* A layer whose vertices have several children has been built.
C8_Witness ==
  /\ Len(vertex_octtree) >= 2
  /\ next = vertex_octtree[Len(vertex_octtree)]
  /\ \E p \in Handles(next) : Len(At(next, p).children) > 1

\* The edges of a child that are not outside edges of its corner.
InnerEdges(child) == Edges \ OutsideEdges(child)
ChildInnerSum(child) ==
  SumOver([e \in Edges |-> child.edge_intersections[e]], InnerEdges(child))
InnerSumOf(L, parent) ==
  SumOver([k \in 1..Len(parent.children) |-> ChildInnerSum(At(L, parent.children[k]))],
          1..Len(parent.children))
EulerSumOf(L, parent) ==
  SumOver([k \in 1..Len(parent.children) |->
             At(L, parent.children[k]).euler_characteristic],
          1..Len(parent.children))
ChildOutside(child, e) ==
  IF e \in OutsideEdges(child) THEN child.edge_intersections[e] ELSE 0
OutsideSumOf(L, parent, e) ==
  SumOver([k \in 1..Len(parent.children) |-> ChildOutside(At(L, parent.children[k]), e)],
          1..Len(parent.children))
EulerSubsampled(L, P) ==
  \A p \in Handles(P) :
    LET parent == At(P, p)
        inner == InnerSumOf(L, parent)
    IN parent.children # <<>> =>
         /\ inner % 4 = 0
         /\ 4 * (EulerSumOf(L, parent) - parent.euler_characteristic) = inner
         /\ \A e \in Edges :
              parent.edge_intersections[e] = OutsideSumOf(L, parent, e)

\* C9: for every parent subsample_octtree has built (in the layer the
\* driver has pushed last, or in the one it has discarded at the break), the
\* children's intersections on edges that are not outside edges of the
\* child's corner sum to a multiple of 4, the parent's euler_characteristic is
\* the children's sum less a quarter of that, and its edge_intersections are
\* the children's sums over outside edges only.
C9_EulerSubsampled ==
  /\ Len(vertex_octtree) >= 2 =>
       EulerSubsampled(vertex_octtree[Len(vertex_octtree) - 1],
                       vertex_octtree[Len(vertex_octtree)])
  /\ (pc \in {"subsampled", "solved"} /\ Len(vertex_octtree) > 0) =>
       EulerSubsampled(vertex_octtree[Len(vertex_octtree)], next)

\* A parent whose children meet on edges inside the block is stored.
C9_Witness ==
  \E l \in 1..(Len(vertex_octtree) - 1) : \E p \in Handles(vertex_octtree[l + 1]) :
    /\ At(vertex_octtree[l + 1], p).children # <<>>
    /\ InnerSumOf(vertex_octtree[l], At(vertex_octtree[l + 1], p)) > 0

\* The edges of the cube face on the low (side 0) or high (side 1) end of axis d.
FaceEdges(d, side) ==
  {e \in Edges : EdgeBase(e) # d /\ At(EDGE_OFFSET, e)[d + 1] = side}
FaceCount(vertex, d, side) ==
  SumOver([e \in Edges |-> vertex.edge_intersections[e]], FaceEdges(d, side))

\* C10: is_2manifold is true of a vertex iff its euler_characteristic is 1
\* and on each of the six cube faces its edge_intersections sum to 0 or 2.
C10_Is2Manifold ==
  probe # None =>
    (Unwrap(probe).result
       <=> /\ Unwrap(probe).vertex.euler_characteristic = 1
           /\ \A d \in 0..2 : \A side \in 0..1 :
                FaceCount(Unwrap(probe).vertex, d, side) \in {0, 2})

\* is_2manifold has refused a vertex with euler_characteristic 1 for a face
\* that four edges cross.
C10_Witness ==
  /\ probe # None
  /\ ~Unwrap(probe).result
  /\ Unwrap(probe).vertex.euler_characteristic = 1
  /\ \E d \in 0..2 : \E side \in 0..1 : FaceCount(Unwrap(probe).vertex, d, side) = 4
  /\ \A d \in 0..2 : \A side \in 0..1 : FaceCount(Unwrap(probe).vertex, d, side) \in {0, 2, 4}

\* C11: the QEF of every vertex of every layer is solved at most once, by the
\* top-down pass or by lookup_cell_point: an accumulator is unsolved (NaN)
\* exactly as long as solve() has not been called on it, no accumulator has
\* been solved twice, and the assertion of recursively_solve_qefs has not failed.
C11_SolvedOnce ==
  /\ panic # Some("found solved qef")
  /\ \A L \in Range(vertex_octtree) : \A h \in Handles(L) :
       /\ At(L, h).qef.solves <= 1
       /\ At(L, h).qef.solves = 0 <=> At(L, h).qef.error = NaN

\* The top-down pass has stopped at the top vertex, and lookup_cell_point has
\* solved a vertex below it and given it a mesh index.
C11_Witness ==
  /\ pc = "solved" /\ calls = 0 /\ Len(vertex_octtree) >= 2
  /\ qef_rule = Some(<<1, 0>>)
  /\ \A h \in Handles(vertex_octtree[Len(vertex_octtree)]) :
       At(vertex_octtree[Len(vertex_octtree)], h).qef.solves = 1
  /\ \E l \in 1..(Len(vertex_octtree) - 1) : \E h \in Handles(vertex_octtree[l]) :
       /\ At(vertex_octtree[l], h).qef.solves = 1
       /\ At(vertex_octtree[l], h).mesh_index # None

\* C12: new() dilates the bounding box by res * 2.1 on every side before it
\* derives origin and dim.
C12_DilatedByRes ==
  probe # None =>
    \A a \in 1..3 :
      /\ Unwrap(probe).engine.origin[a]
           = Unwrap(probe).bbox.min[a] - DilationTimesRes(Unwrap(probe).res)
      /\ Unwrap(probe).engine.dim[a]
           = CeilDiv(Unwrap(probe).bbox.max[a] - Unwrap(probe).bbox.min[a]
                       + 2 * DilationTimesRes(Unwrap(probe).res),
                     10 * Unwrap(probe).res)

\* The number of four-index faces among the first n faces.
QuadsBefore(faces, n) == Cardinality({j \in 1..n : Len(faces[j]) = 4})

\* C13: to_triangle_mesh keeps the vertex list and maps the faces in order: a
\* face f of four indices becomes the consecutive triangles (f0,f1,f2) and
\* (f2,f3,f0), a triangle is passed through; there are as many triangles as
\* faces plus four-index faces, however the parallel iteration is split.
C13_TriangleMesh ==
  probe # None =>
    LET faces == Unwrap(probe).mesh.faces
        out == Unwrap(probe).result.faces
    IN /\ Unwrap(probe).result.vertices = Unwrap(probe).mesh.vertices
       /\ Len(out) = Len(faces) + QuadsBefore(faces, Len(faces))
       /\ \A i \in 1..Len(faces) :
            LET at == i + QuadsBefore(faces, i - 1)
                f == faces[i]
            IN /\ out[at] = <<f[1], f[2], f[3]>>
               /\ Len(f) = 4 => out[at + 1] = <<f[3], f[4], f[1]>>

\* A quad followed by a triangle has been converted in two pieces.
C13_Witness ==
  /\ probe # None
  /\ Unwrap(probe).cuts # {}
  /\ Len(Unwrap(probe).mesh.faces) >= 2
  /\ Len(Unwrap(probe).mesh.faces[1]) = 4
  /\ Len(Unwrap(probe).mesh.faces[2]) = 3
  /\ Len(Unwrap(probe).result.faces) > Len(Unwrap(probe).mesh.faces)

RECURSIVE Ancestor(_, _, _)
\* The ancestor k layers above vertex h of layer l, by the parent handles.
Ancestor(l, h, k) ==
  IF k = 0 THEN h ELSE Ancestor(l + 1, Unwrap(VertexAt(l, h).parent), k - 1)

\* The leaf the next compute_quad looks up first: the vertex of the cell
\* across the first edge of QUADS that holds this edge.
FirstLookup ==
  LET edge_index == At(edge_grid, quad_next)
      quad_egde == At(QUADS, edge_index.edge)[1]
      idx == neg_offset(edge_index.index, At(EDGE_OFFSET, quad_egde))
      cell == bitset_for_cell(value_grid, idx)
      edge_set == IF cell = None THEN None
                  ELSE get_connected_edges(quad_egde, Unwrap(cell))
  IN IF edge_set = None THEN None
     ELSE IF [edges |-> Unwrap(edge_set), index |-> idx] \notin DOMAIN vertex_index_map
     THEN None
     ELSE Some(vertex_index_map[[edges |-> Unwrap(edge_set), index |-> idx]])

\* The parent may be walked into: solved, residual within the tolerance,
\* below the top layer, 2-manifold.
MayAscendTo(l, h) ==
  /\ VertexAt(l, h).qef.error = "low"
  /\ VertexAt(l, h).qef.solves >= 1
  /\ l # Len(vertex_octtree) - 1
  /\ is_2manifold(VertexAt(l, h))

\* C14: the ancestor walk of lookup_cell_point moves to a parent only if the
\* parent's QEF is already solved with a residual within the tolerance, the
\* parent is not in the top layer and the parent is 2-manifold; the first
\* parent failing one of these ends the walk.
C14_AscendOnlySolved ==
  (pc = "solved" /\ quad_next < Len(edge_grid) /\ FirstLookup # None) =>
    LET h == Unwrap(FirstLookup)
        w == WalkUp(vertex_octtree, 0, h)
    IN /\ \A k \in 1..w.layer : MayAscendTo(k, Ancestor(0, h, k))
       /\ w.panic = None =>
            ~MayAscendTo(w.layer + 1, Ancestor(0, h, w.layer + 1))

\* The parent may be walked into as the source has it: not solved yet or
\* solved with a residual within the tolerance, below the top layer,
\* 2-manifold.
MayAscendUnsolved(l, h) ==
  /\ VertexAt(l, h).qef.error \in {NaN, "low"}
  /\ l # Len(vertex_octtree) - 1
  /\ is_2manifold(VertexAt(l, h))

\* C14 as the source has it: from every leaf the walk moves to a parent only
\* if the parent's QEF is unsolved or has a residual within the tolerance,
\* the parent is not in the top layer and the parent is 2-manifold; the
\* first parent failing one of these ends the walk.
C14_AscendUnsolvedOrLow ==
  pc = "solved" =>
    \A h \in Handles(At(vertex_octtree, 0)) :
      LET w == WalkUp(vertex_octtree, 0, h)
      IN /\ \A k \in 1..w.layer : MayAscendUnsolved(k, Ancestor(0, h, k))
         /\ w.panic = None =>
              ~MayAscendUnsolved(w.layer + 1, Ancestor(0, h, w.layer + 1))

\* The next lookup walks into a parent that is not solved, and stops there.
C14_Witness ==
  /\ pc = "solved" /\ quad_next < Len(edge_grid) /\ FirstLookup # None
  /\ LET h == Unwrap(FirstLookup)
         w == WalkUp(vertex_octtree, 0, h)
     IN /\ w.panic = None
        /\ w.layer >= 1
        /\ VertexAt(w.layer, Ancestor(0, h, w.layer)).qef.solves = 0

\* A walk that is stopped by a solved parent whose residual is too large.
C14_WitnessHigh ==
  /\ pc = "solved"
  /\ \E h \in Handles(At(vertex_octtree, 0)) :
       LET w == WalkUp(vertex_octtree, 0, h)
       IN /\ w.panic = None
          /\ w.layer + 1 < Len(vertex_octtree) - 1
          /\ is_2manifold(VertexAt(w.layer + 1, Ancestor(0, h, w.layer + 1)))
          /\ VertexAt(w.layer + 1, Ancestor(0, h, w.layer + 1)).qef.error = "high"

RECURSIVE Coarsen(_, _)
\* The layer subsample_octtree gives when it is applied k more times.
Coarsen(layer, k) ==
  IF k = 0 THEN layer ELSE Coarsen(subsample_octtree(layer).result, k - 1)

MaxFurther == 2

\* C15: the growth loop stops exactly when subsampling the top layer gives a
\* layer of the same number of vertices, and then no further coarsening is
\* possible: subsampling the would-be next layer further times never gives
\* fewer vertices than the top layer has.
C15_NoFurtherCoarsening ==
  /\ pc = "subsampled" => Len(next) = Len(vertex_octtree[Len(vertex_octtree)])
  /\ pc = "subsampled" =>
       \A k \in 1..MaxFurther :
         Len(Coarsen(next, k)) >= Len(vertex_octtree[Len(vertex_octtree)])

\* The index of the cell across quad position q of the edge key k, the
\* subtraction taken in the integers.
CellOfQuad(k, q) ==
  LET o == At(EDGE_OFFSET, At(QUADS, k.edge)[q])
  IN <<k.index[1] - o[1], k.index[2] - o[2], k.index[3] - o[3]>>

\* C16: for every key of the edge grid built from the sampled and compacted
\* value grid, the index components of the key are > 0, each of the four
\* cells sharing the edge has index components >= 0 and all 8 of its corners
\* in the compacted value grid; bitset_for_cell never misses a value.
C16_CellsPresent ==
  /\ panic # Some("did not find value_grid")
  /\ pc \in {"edges", "leaves", "subsampled", "solved"} =>
       \A i \in 1..Len(edge_grid) :
         /\ edge_grid[i].edge < 4
         /\ \A d \in 1..3 : edge_grid[i].index[d] > 0
         /\ \A q \in 1..4 :
              /\ \A d \in 1..3 : CellOfQuad(edge_grid[i], q)[d] >= 0
              /\ \A x \in 0..1, y \in 0..1, z \in 0..1 :
                   <<CellOfQuad(edge_grid[i], q)[1] + x,
                     CellOfQuad(edge_grid[i], q)[2] + y,
                     CellOfQuad(edge_grid[i], q)[3] + z>> \in DOMAIN value_grid

\* Quads have been emitted for an edge grid with keys on all three axes.
C16_Witness ==
  /\ pc = "solved" /\ quad_next = Len(edge_grid) /\ panic = None
  /\ \A e \in 0..2 : \E i \in 1..Len(edge_grid) : edge_grid[i].edge = e
  /\ mesh.faces # <<>>

\* The entries of g that have an entry of the other sign among the 27
\* indices around them.
HasOpposite(g, i) ==
  \E x \in -1..1, y \in -1..1, z \in -1..1 :
    /\ <<i[1] + x, i[2] + y, i[3] + z>> \in DOMAIN g
    /\ (g[<<i[1] + x, i[2] + y, i[3] + z>>] < 0) # (g[i] < 0)

\* C19: compact_value_grid removes the entry at index i exactly when no entry
\* of the grid as it was before the call, at an index i + d with d in
\* {-1,0,1}^3, has a value of the other sign, also where i has a component 0;
\* the result does not depend on the order the filter visits the entries in.
C19_RemovesIffNoOpposite ==
  [][pc = "sampled" =>
       /\ DOMAIN value_grid' = {i \in DOMAIN value_grid : HasOpposite(value_grid, i)}
       /\ \A i \in DOMAIN value_grid' : value_grid'[i] = value_grid[i]]_vars

\* The same for a release build only.
C19_ReleaseRemovesIffNoOpposite ==
  [][(pc = "sampled" /\ ~debug_assertions) =>
       /\ DOMAIN value_grid' = {i \in DOMAIN value_grid : HasOpposite(value_grid, i)}
       /\ \A i \in DOMAIN value_grid' : value_grid'[i] = value_grid[i]]_vars

\* The entries at i and at the next index along axis e exist and differ in sign.
CrossesZero(e, i) ==
  /\ e \in 0..2
  /\ i \in DOMAIN value_grid
  /\ [i EXCEPT ![e + 1] = @ + 1] \in DOMAIN value_grid
  /\ (value_grid[i] < 0) # (value_grid[[i EXCEPT ![e + 1] = @ + 1]] < 0)

\* C18: after generate_edge_grid the edge grid holds the key (e, i) exactly
\* when e is one of the edges A, B, C, both i and i + unit(e) are in the
\* compacted value grid and their values differ in sign; no key has one of
\* the labels D..L.
C18_EdgeKeysIffSignChange ==
  pc \in {"edges", "leaves", "subsampled", "solved"} =>
    /\ \A k \in Range(edge_grid) : k.edge \in 0..2 /\ CrossesZero(k.edge, k.index)
    /\ \A e \in Edges : \A i \in DOMAIN value_grid :
         CrossesZero(e, i) => [edge |-> e, index |-> i] \in Range(edge_grid)

\* The edge grid has been built, with keys on all three axes, from a grid
\* that also holds neighbouring entries of the same sign.
C18_Witness ==
  /\ pc = "edges"
  /\ \A e \in 0..2 : \E k \in Range(edge_grid) : k.edge = e
  /\ \E e \in 0..2 : \E i \in DOMAIN value_grid :
       /\ [i EXCEPT ![e + 1] = @ + 1] \in DOMAIN value_grid
       /\ ~CrossesZero(e, i)

\* The order of the stages of one attempt, as steps of pc.
StageOrder ==
  {<<"idle", "try">>, <<"try", "hitzero">>, <<"hitzero", "try">>,
   <<"try", "sampled">>, <<"sampled", "compacted">>, <<"compacted", "edges">>,
   <<"edges", "leaves">>, <<"leaves", "leaves">>, <<"leaves", "subsampled">>,
   <<"subsampled", "solved">>, <<"solved", "solved">>, <<"solved", "idle">>,
   <<"sampled", "panicked">>, <<"edges", "panicked">>,
   <<"subsampled", "panicked">>, <<"solved", "panicked">>}

\* The step solves the QEF of a stored vertex.
QefSolvedInStep ==
  \E l \in 1..Len(vertex_octtree) :
    /\ l <= Len(vertex_octtree')
    /\ \E h \in 1..Len(vertex_octtree[l]) :
         /\ h <= Len(vertex_octtree'[l])
         /\ vertex_octtree'[l][h].qef.solves > vertex_octtree[l][h].qef.solves

\* The step adds no layer and writes no parent handle.
LayersAndParentsKept ==
  /\ Len(vertex_octtree') = Len(vertex_octtree)
  /\ \A l \in 1..Len(vertex_octtree) :
       /\ Len(vertex_octtree'[l]) = Len(vertex_octtree[l])
       /\ \A h \in 1..Len(vertex_octtree[l]) :
            vertex_octtree'[l][h].parent = vertex_octtree[l][h].parent

\* C17: within one attempt the stages run in the order sampling, compaction,
\* edge grid, leaf vertices, subsampling, top-down solve, quad emission, each
\* at most once: HitZero is raised only by sampling, before any edge, vertex
\* or mesh element exists; once a QEF has been solved no layer is added and no
\* parent handle written; nothing is appended to the mesh before the top-down
\* solve has finished.
C17_StageOrder ==
  [][/\ <<pc, pc'>> \in StageOrder
     /\ (hit = None /\ hit' # None) =>
          /\ pc = "try" /\ pc' = "hitzero"
          /\ edge_grid = <<>> /\ vertex_octtree = <<>>
          /\ vertex_index_map = EmptyMap /\ mesh = EmptyMesh
     /\ QefSolvedInStep => pc \in {"subsampled", "solved"}
     /\ pc \in {"subsampled", "solved"} => LayersAndParentsKept
     /\ (Len(mesh'.vertices) > Len(mesh.vertices) \/ Len(mesh'.faces) > Len(mesh.faces))
          => pc = "solved"]_vars

\* A call has returned a mesh that took a retry after HitZero, a growth loop
\* of more than one round and lazily solved vertices.
C17_Witness ==
  /\ pc = "idle" /\ calls = 1 /\ origin >= 1
  /\ Len(vertex_octtree) >= 2
  /\ returned # None
  /\ Unwrap(returned).faces # <<>>

\* Two vertices of layer L in the same 2x2x2 block, one of which lists the
\* other as a neighbor on some face.
BlockAdjacent(L, a, b) ==
  /\ half_index(At(L, a).index) = half_index(At(L, b).index)
  /\ \E np \in 1..6 :
       Contains(At(L, a).neighbors[np], b) \/ Contains(At(L, b).neighbors[np], a)

RECURSIVE BlockComponent(_, _)
\* The vertices of L joined to one of S by a path of such pairs.
BlockComponent(L, S) ==
  LET more == {b \in Handles(L) : \E a \in S : BlockAdjacent(L, a, b)} IN
    IF more \subseteq S THEN S ELSE BlockComponent(L, S \cup more)

\* The children of every parent in P are one whole component of L.
ChildrenAreComponents(L, P) ==
  /\ \A u \in Handles(L) : \A v \in Handles(L) :
       (At(L, u).parent = At(L, v).parent) <=> (v \in BlockComponent(L, {u}))
  /\ \A u \in Handles(L) :
       /\ At(L, u).parent # None
       /\ Unwrap(At(L, u).parent) \in Handles(P)
       /\ Range(At(P, Unwrap(At(L, u).parent)).children) = BlockComponent(L, {u})

\* C20: after subsample_octtree two vertices of the layer have the same
\* parent exactly when they have the same halved index and are joined by a
\* path of neighbors inside that 2x2x2 block; the children of each parent are
\* one such component, in whatever order the layer holds its vertices.
C20_ChildrenAreComponents ==
  [][pc = "leaves" =>
       ChildrenAreComponents(vertex_octtree'[Len(vertex_octtree)], next')]_vars

\* A layer has been subsampled in which one parent has several children and
\* two neighbors have different parents.
C20_Witness ==
  /\ pc = "leaves" /\ Len(vertex_octtree) >= 2
  /\ next = vertex_octtree[Len(vertex_octtree)]
  /\ LET L == vertex_octtree[Len(vertex_octtree) - 1] IN
       /\ \E u \in Handles(L) : \E v \in Handles(L) :
            u # v /\ At(L, u).parent = At(L, v).parent
       /\ \E u \in Handles(L) : \E v \in Handles(L) :
            /\ At(L, u).parent # At(L, v).parent
            /\ \E np \in 1..6 : Contains(At(L, u).neighbors[np], v)

\* C21: EdgeIndex::base gives a label among A, B, C and is idempotent; for
\* a canonical edge (b, i) every entry q of QUADS[b], taken in the cell
\* i - EDGE_OFFSET[q], has the base (b, i), and the four cells are pairwise
\* distinct.
C21_BaseIdentifiesEdges ==
  probe # None =>
    /\ Unwrap(probe).base.edge \in 0..2
    /\ Unwrap(probe).rebase = Unwrap(probe).base
    /\ Unwrap(probe).edge_index.edge < 3 =>
         /\ \A q \in 1..4 : Unwrap(probe).quads[q] = Unwrap(probe).edge_index
         /\ \A q \in 1..4 : \A r \in 1..4 :
              q # r => Unwrap(probe).cells[q].index # Unwrap(probe).cells[r].index

\* base() has been taken of a canonical edge's entries in its four cells and
\* of a non-canonical edge whose base lies in another cell.
C21_Witness ==
  /\ probe # None
  /\ Unwrap(probe).edge_index.edge = 1
  /\ Len(Unwrap(probe).quads) = 4
  /\ Unwrap(probe).cells[3].edge = 10
  /\ Unwrap(probe).cells[3].index # Unwrap(probe).edge_index.index

\* base() of a non-canonical edge lies in another cell than the edge.
C21_WitnessMoved ==
  /\ probe # None
  /\ Unwrap(probe).edge_index.edge = 11
  /\ Unwrap(probe).base.edge = 2
  /\ Unwrap(probe).base.index # Unwrap(probe).edge_index.index

\* C22: get_connected_edges_from_edge_set returns exactly the components of
\* CELL_CONFIGS[cell] that share an edge with edge_set, each once; when all
\* of edge_set are sign-change edges of the cell, the components returned
\* cover edge_set; the cell with negative corners 0, 3, 5, 6 and the edge set
\* {4, 5, 10, 11} give the two components {5, 6, 10} and {3, 4, 11}.
C22_ConnectedEdgeSets ==
  probe # None =>
    LET cell == Unwrap(probe).cell
        edge_set == Unwrap(probe).edge_set
        result == Unwrap(probe).result
    IN /\ Range(result) =
            {c \in Range(At(CELL_CONFIGS, cell)) : c \cap edge_set # {}}
       /\ Len(result) = Cardinality(Range(result))
       /\ edge_set \subseteq CrossEdges(cell) =>
            edge_set \subseteq UNION Range(result)
       /\ (cell = Pow2(0) + Pow2(3) + Pow2(5) + Pow2(6) /\ edge_set = {4, 5, 10, 11}) =>
            (Len(result) = 2 /\ Range(result) = {{5, 6, 10}, {3, 4, 11}})

\* The call of the unit test of the source has been made.
C22_Witness ==
  /\ probe # None
  /\ Unwrap(probe).cell = Pow2(0) + Pow2(3) + Pow2(5) + Pow2(6)
  /\ Unwrap(probe).edge_set = {4, 5, 10, 11}
  /\ Len(Unwrap(probe).result) = 2

\* A call with sign-change edges only that returns some, not all, components.
C22_WitnessSome ==
  /\ probe # None
  /\ Unwrap(probe).edge_set # {}
  /\ Unwrap(probe).edge_set \subseteq CrossEdges(Unwrap(probe).cell)
  /\ Len(Unwrap(probe).result) = 1
  /\ Len(At(CELL_CONFIGS, Unwrap(probe).cell)) = 3

\* The leaf lookup_cell_point starts from for position q of QUADS at the
\* edge key k, None when the lookup would panic before the walk.
LookupLeaf(k, q) ==
  LET quad_egde == At(QUADS, k.edge)[q]
      idx == neg_offset(k.index, At(EDGE_OFFSET, quad_egde))
      cell == bitset_for_cell(value_grid, idx)
      edge_set == IF cell = None THEN None
                  ELSE get_connected_edges(quad_egde, Unwrap(cell))
  IN IF edge_set = None THEN None
     ELSE IF [edges |-> Unwrap(edge_set), index |-> idx] \notin DOMAIN vertex_index_map
     THEN None
     ELSE Some(vertex_index_map[[edges |-> Unwrap(edge_set), index |-> idx]])

\* A later key of the edge grid looks up the same leaf as the first lookup
\* of the next compute_quad.
LookedUpAgain ==
  \E j \in (quad_next + 1)..(Len(edge_grid) - 1) : \E q \in 1..4 :
    LookupLeaf(At(edge_grid, j), q) = FirstLookup

\* C23: within one attempt every lookup_cell_point for the same leaf ends
\* its walk at the same octree vertex and returns the same mesh index: when
\* compute_quad has looked a leaf up that a later key looks up again, the
\* walk from that leaf ends where it ended before, whatever was solved lazily
\* in between.
C23_SameVertexEveryLookup ==
  [][(/\ pc = "solved" /\ pc' = "solved" /\ quad_next < Len(edge_grid)
      /\ FirstLookup # None /\ LookedUpAgain) =>
       LET h == Unwrap(FirstLookup) IN
         /\ WalkUp(vertex_octtree', 0, h) = WalkUp(vertex_octtree, 0, h)
         /\ At(At(vertex_octtree', WalkUp(vertex_octtree', 0, h).layer),
               WalkUp(vertex_octtree', 0, h).index).mesh_index = Some(resolved'[1])]_vars

\* C24: a second tessellate() on the same engine after a successful first
\* call starts from clean state and returns a mesh equal to the first one up
\* to vertex and face order: the leaves it generates are layer 0 of the
\* octree, and the mesh it returns holds nothing of the first call.
C24_SecondCallSameMesh ==
  [][/\ (pc = "edges" /\ pc' = "leaves") => Len(vertex_octtree') = 1
     /\ (pc = "solved" /\ pc' = "idle" /\ calls = 1) =>
          /\ Canonical(Unwrap(returned')) = Canonical(Unwrap(returned))
          /\ Len(Unwrap(returned').faces) = Len(Unwrap(returned).faces)
          /\ Len(Unwrap(returned').vertices) = Len(Unwrap(returned).vertices)]_vars

====
